---- MODULE Spec2Model ----
(***************************************************************************)
(* Model of the retrieval core of the UFCSPA RAG pipeline:                 *)
(*   - DocumentProcessor.chunk_text        (src/ingest_fixed.py)           *)
(*   - TextChunker._chunk_with_tiktoken    (src/ingest/chunk.py)           *)
(*   - EmbeddingGenerator.process_chunks   (src/ingest/embed.py)           *)
(*   - QueryEngine                         (src/query/query.py)            *)
(*   - LlamaModel, QueryEngineWithLlama    (src/query/llama_model.py,      *)
(*                                          src/query/query_with_llama.py) *)
(*   - search_documents                    (src/rag_demo.py)               *)
(*   - DocumentProcessor.clean_text, process_file, process_directory       *)
(*                                         (src/ingest_fixed.py)           *)
(*   - TextChunker.process_all_texts       (src/ingest/chunk.py)           *)
(*   - VectorSearchTool, search_vectorstore (src/search_tool.py)           *)
(*   - PineconeIngestionPipeline           (src/ingest_to_pinecone.py)     *)
(*   - run_full_pipeline                   (src/ingest/run_pipeline.py)    *)
(* Strings are sequences of one-character strings; indices into them are   *)
(* Python's 0-based indices, so text[i] of the code is text[i + 1] here.   *)
(***************************************************************************)
EXTENDS Integers, Sequences, FiniteSets, TLC

VARIABLES ct, tk, disk, gen, qe, qlog, llm, kw, cl, pf, bulk, st, wl, pp, rp

vars == <<ct, tk, disk, gen, qe, qlog, llm, kw, cl, pf, bulk, st, wl, pp, rp>>

(***************************************************************************)
(* Bounds of the model.                                                    *)
(***************************************************************************)
MaxLen == 6
MaxSize == 5
MaxIter == 4
MaxTokLen == 6
MaxTokSize == 4
MaxChunks == 3
MaxInput == 4
BatchSize == 2
MaxBuilds == 2
MaxK == 4
MaxWords == 2
MaxCleanLen == 7
MaxFileChunks == 12
MaxBulkFiles == 3
MaxBulkChunks == 2
MaxCache == 2
MaxTopK == 1
MaxCuts == 3
MaxSnapshot == 2
MaxRawLen == 3
MaxValid == 2
MaxPdfs == 2
MaxPineconeFiles == 3

(***************************************************************************)
(* Program constants.                                                      *)
(***************************************************************************)
CHUNK_SIZE == 1200
CHUNK_OVERLAP == 200

(***************************************************************************)
(* Python primitives used by the chunkers.                                 *)
(***************************************************************************)
Min2(a, b) == IF a <= b THEN a ELSE b
Max2(a, b) == IF a >= b THEN a ELSE b
SetMin(S) == CHOOSE x \in S : \A y \in S : x <= y
SetMax(S) == CHOOSE x \in S : \A y \in S : x >= y

Whitespace == {" ", "\n", "\t"}

\* Python's normalisation of a slice bound: negative counts from the end,
\* the result is clipped to [0, n].
PyIndex(i, n) == IF i < 0 THEN Max2(i + n, 0) ELSE Min2(i, n)

\* s[i:j]
PySlice(s, i, j) ==
    LET lo == PyIndex(i, Len(s))
        hi == PyIndex(j, Len(s))
    IN IF lo >= hi THEN << >> ELSE SubSeq(s, lo + 1, hi)

\* s.rfind(sub, start, end): highest 0-based index of an occurrence of sub
\* lying wholly inside s[start:end], or -1.
RFind(s, sub, start, end) ==
    LET lo == PyIndex(start, Len(s))
        hi == PyIndex(end, Len(s))
        hits == {i \in lo .. (hi - Len(sub)) :
                    \A j \in 1 .. Len(sub) : s[i + j] = sub[j]}
    IN IF hits = {} THEN -1 ELSE SetMax(hits)

\* s.strip()
Strip(s) ==
    LET keep == {i \in 1 .. Len(s) : s[i] \notin Whitespace}
    IN IF keep = {} THEN << >> ELSE SubSeq(s, SetMin(keep), SetMax(keep))

\* "x or default" on an int argument: None and 0 are both falsy.
OrDefault(x, d) == IF x = 0 THEN d ELSE x

(***************************************************************************)
(* DocumentProcessor.chunk_text                                            *)
(***************************************************************************)
Delimiters == << <<".", " ">>, <<".", "\n">>, <<"!", " ">>, <<"!", "\n">>,
                 <<"?", " ">>, <<"?", "\n">>, <<"\n", "\n">> >>

BoundaryEndAnywhere(text, start, end, chunk_size) ==
    LET hits == {d \in 1 .. Len(Delimiters) :
                    RFind(text, Delimiters[d], start, end) >= 0}
    IN IF hits = {} THEN end
       ELSE LET d == SetMin(hits)
            IN RFind(text, Delimiters[d], start, end) + Len(Delimiters[d]) - 1

\* The window end after the boundary search of one iteration.
BoundaryEnd(text, start, end, chunk_size) ==
    LET hits == {d \in 1 .. Len(Delimiters) :
                    RFind(text, Delimiters[d], start, end)
                        > start + chunk_size \div 2}
    IN IF hits = {} THEN end
       ELSE LET d == SetMin(hits)
            IN RFind(text, Delimiters[d], start, end) + Len(Delimiters[d]) - 1

WindowEndPastSize(text, start, chunk_size) ==
    LET end == Min2(start + chunk_size + 1, Len(text))
    IN IF end < Len(text) THEN BoundaryEnd(text, start, end, chunk_size)
       ELSE end

WindowEnd(text, start, chunk_size) ==
    LET end == Min2(start + chunk_size, Len(text))
    IN IF end < Len(text) THEN BoundaryEnd(text, start, end, chunk_size)
       ELSE end

NextStartSkip(text, end, overlap) ==
    IF end < Len(text) THEN end + 1 ELSE end

NextStart(text, end, overlap) ==
    IF end < Len(text) THEN end - overlap ELSE end

\* The delimiter an iteration cuts its window at: the first in the list
\* whose rfind passes the test of line 85, with the position rfind gave.
BoundaryCut(text, start, chunk_size) ==
    LET end == Min2(start + chunk_size, Len(text))
        hits == {d \in 1 .. Len(Delimiters) :
                    RFind(text, Delimiters[d], start, end)
                        > start + chunk_size \div 2}
    IN IF end < Len(text) /\ hits # {}
       THEN [d |-> SetMin(hits),
             pos |-> RFind(text, Delimiters[SetMin(hits)], start, end)]
       ELSE [d |-> 0, pos |-> -1]

\* The 0-based positions of s that s[i:j] holds.
SliceRange(s, i, j) ==
    LET lo == PyIndex(i, Len(s))
        hi == PyIndex(j, Len(s))
    IN lo .. hi - 1

RECURSIVE StringsOfLen(_, _)
StringsOfLen(A, n) ==
    IF n = 0 THEN {<< >>}
    ELSE {Append(s, c) : s \in StringsOfLen(A, n - 1), c \in A}

StringsUpTo(A, n) == UNION {StringsOfLen(A, m) : m \in 0 .. n}

ChunkAlphabet == {"a", ".", " "}

\* Next to the variables of the code, wstart is the start of the window
\* the last iteration cut, cut the boundary delimiter it was cut at (its
\* number in the preference list, 0 for none, and the position rfind gave),
\* and covered the positions of the text inside the windows cut so far.
CtIdle == [pc |-> "idle", text |-> << >>, arg_size |-> 0, arg_overlap |-> 0,
           chunk_size |-> 0, overlap |-> 0, start |-> 0, end |-> 0,
           chunks |-> << >>, iter |-> 0,
           wstart |-> 0, cut |-> [d |-> 0, pos |-> -1], covered |-> {}]

\* A call chunk_text(text, chunk_size, overlap) about to be made; an argument
\* of 0 stands for an omitted (None) or zero argument.
InitChunkText ==
    \E text \in StringsUpTo(ChunkAlphabet, MaxLen) :
    \E cs \in 0 .. MaxSize :
    \E ov \in 0 .. MaxSize :
        ct = [CtIdle EXCEPT !.pc = "call", !.text = text,
                            !.arg_size = cs, !.arg_overlap = ov]

\* Lines 69-76: defaults, the short-text early return, loop initialisation.
ChunkTextCall ==
    /\ ct.pc = "call"
    /\ LET chunk_size == OrDefault(ct.arg_size, CHUNK_SIZE)
           overlap == OrDefault(ct.arg_overlap, CHUNK_OVERLAP)
       IN ct' = IF Len(ct.text) <= chunk_size
                THEN [ct EXCEPT !.pc = "done", !.chunk_size = chunk_size,
                                !.overlap = overlap, !.chunks = <<ct.text>>,
                                !.covered = 0 .. Len(ct.text) - 1]
                ELSE [ct EXCEPT !.pc = "loop", !.chunk_size = chunk_size,
                                !.overlap = overlap, !.start = 0]
    /\ UNCHANGED <<tk, disk, gen, qe, qlog, llm, kw, cl, pf, bulk, st, wl, pp, rp>>

\* Lines 78-93: one iteration of the while loop, followed by the loop test.
ChunkTextStep ==
    /\ ct.pc = "loop"
    /\ ct.iter < MaxIter
    /\ LET end == WindowEnd(ct.text, ct.start, ct.chunk_size)
           chunk == Strip(PySlice(ct.text, ct.start, end))
           start == NextStart(ct.text, end, ct.overlap)
       IN ct' = [ct EXCEPT !.end = end,
                           !.wstart = ct.start,
                           !.cut = BoundaryCut(ct.text, ct.start, ct.chunk_size),
                           !.covered = ct.covered \cup
                                       SliceRange(ct.text, ct.start, end),
                           !.chunks = IF chunk # << >>
                                      THEN Append(ct.chunks, chunk)
                                      ELSE ct.chunks,
                           !.start = start,
                           !.iter = ct.iter + 1,
                           !.pc = IF start < Len(ct.text)
                                  THEN "loop" ELSE "done"]
    /\ UNCHANGED <<tk, disk, gen, qe, qlog, llm, kw, cl, pf, bulk, st, wl, pp, rp>>

(***************************************************************************)
(* TextChunker._chunk_with_tiktoken                                        *)
(* The tokenizer is a greedy longest-match encoder over a vocabulary of    *)
(* one- and two-character tokens; decode concatenates the tokens.          *)
(***************************************************************************)
TokAlphabet == {"a", "."}

Merges == { <<"a", "a">>, <<".", "a">> }

RECURSIVE Encode(_)
Encode(text) ==
    IF text = << >> THEN << >>
    ELSE IF Len(text) >= 2 /\ SubSeq(text, 1, 2) \in Merges
         THEN <<SubSeq(text, 1, 2)>> \o Encode(SubSeq(text, 3, Len(text)))
         ELSE <<SubSeq(text, 1, 1)>> \o Encode(Tail(text))

RECURSIVE Decode(_)
Decode(tokens) ==
    IF tokens = << >> THEN << >> ELSE Head(tokens) \o Decode(Tail(tokens))

\* max(rfind('.'), rfind('!'), rfind('?'), rfind('\n')) over the whole string
LastSentenceEnd(chunk_text) ==
    SetMax({RFind(chunk_text, <<c>>, 0, Len(chunk_text)) :
                c \in {".", "!", "?", "\n"}})

\* The text emitted for the window starting at start_idx (lines 265-284).
TokChunkText(tokens, start_idx, chunk_size) ==
    LET end_idx == Min2(start_idx + chunk_size, Len(tokens))
        chunk_text == Decode(PySlice(tokens, start_idx, end_idx))
        last_sentence_end == LastSentenceEnd(chunk_text)
    IN IF end_idx < Len(tokens) /\ 2 * last_sentence_end > Len(chunk_text)
       THEN PySlice(chunk_text, 0, last_sentence_end + 1)
       ELSE chunk_text

\* end_idx after the sentence adjustment (lines 265, 274-287).
TokWindowEnd(tokens, start_idx, chunk_size) ==
    LET end_idx == Min2(start_idx + chunk_size, Len(tokens))
        chunk_text == Decode(PySlice(tokens, start_idx, end_idx))
        last_sentence_end == LastSentenceEnd(chunk_text)
    IN IF end_idx < Len(tokens) /\ 2 * last_sentence_end > Len(chunk_text)
       THEN start_idx + Len(Encode(PySlice(chunk_text, 0, last_sentence_end + 1)))
       ELSE end_idx

\* Line 292.
TokNextStart(tokens, end_idx, chunk_overlap) == end_idx - chunk_overlap

TkIdle == [pc |-> "idle", text |-> << >>, chunk_size |-> 0, chunk_overlap |-> 0,
           tokens |-> << >>, start_idx |-> 0, end_idx |-> 0,
           chunks |-> << >>, iter |-> 0]

\* A TextChunker(chunk_size, chunk_overlap, method="tiktoken") about to be
\* constructed, and the cleaned text it will be given.
InitTiktoken ==
    \E text \in StringsUpTo(TokAlphabet, MaxTokLen) :
    \E cs \in 1 .. MaxTokSize :
    \E ov \in 0 .. MaxTokSize :
        tk = [TkIdle EXCEPT !.pc = "new", !.text = text,
                            !.chunk_size = cs, !.chunk_overlap = ov]

\* TextChunker.__init__ (lines 43-85): stores the configuration as given.
TextChunkerInit ==
    /\ tk.pc = "new"
    /\ tk' = [tk EXCEPT !.pc = "ready"]
    /\ UNCHANGED <<ct, disk, gen, qe, qlog, llm, kw, cl, pf, bulk, st, wl, pp, rp>>

\* Lines 258-263: tokenise, initialise, first loop test.
TiktokenCall ==
    /\ tk.pc = "ready"
    /\ LET tokens == Encode(tk.text)
       IN tk' = [tk EXCEPT !.tokens = tokens, !.start_idx = 0,
                           !.pc = IF 0 < Len(tokens) THEN "loop" ELSE "done"]
    /\ UNCHANGED <<ct, disk, gen, qe, qlog, llm, kw, cl, pf, bulk, st, wl, pp, rp>>

\* Lines 263-292: one iteration of the while loop, followed by the loop test.
TiktokenStep ==
    /\ tk.pc = "loop"
    /\ tk.iter < MaxIter
    /\ LET end_idx == TokWindowEnd(tk.tokens, tk.start_idx, tk.chunk_size)
           chunk_text == TokChunkText(tk.tokens, tk.start_idx, tk.chunk_size)
           start_idx == TokNextStart(tk.tokens, end_idx, tk.chunk_overlap)
       IN tk' = [tk EXCEPT !.end_idx = end_idx,
                           !.chunks = Append(tk.chunks, chunk_text),
                           !.start_idx = start_idx,
                           !.iter = tk.iter + 1,
                           !.pc = IF start_idx < Len(tk.tokens)
                                  THEN "loop" ELSE "done"]
    /\ UNCHANGED <<ct, disk, gen, qe, qlog, llm, kw, cl, pf, bulk, st, wl, pp, rp>>

(***************************************************************************)
(* The embedding model and the vectors.                                    *)
(* A vector is a direction on an 8-point compass (ang, multiples of 45     *)
(* degrees) with a magnitude; normalisation keeps the direction and sets   *)
(* the magnitude to 1, and the inner product of two unit vectors is the    *)
(* cosine of the angle between them, in thousandths.                       *)
(***************************************************************************)
Count(s, c) == Cardinality({i \in 1 .. Len(s) : s[i] = c})

\* SentenceTransformer.encode of one text: a deterministic function of the
\* text with a non-zero norm.
ModelEncode(text) ==
    [ang |-> IF Count(text, "a") > Count(text, "b") THEN 0
             ELSE IF Count(text, "a") < Count(text, "b") THEN 2 ELSE 1,
     mag |-> 1 + Len(text)]

\* v / ||v||
Normalize(v) == [ang |-> v.ang, mag |-> 1]

CosTable == <<1000, 707, 0, -707, -1000, -707, 0, 707>>

InnerProduct(u, v) == u.mag * v.mag * CosTable[((u.ang - v.ang) % 8) + 1]

(***************************************************************************)
(* EmbeddingGenerator.process_chunks and the files of a snapshot.          *)
(***************************************************************************)
Absent == [state |-> "absent", build |-> 0, data |-> << >>]

Partial(b) == [state |-> "partial", build |-> b, data |-> << >>]

File(b, data) == [state |-> "ok", build |-> b, data |-> data]

ChunkTexts == {<<"a">>, <<"b">>}

BlankTexts == {<<" ">>}

\* The chunk records of a chunks.json holding the given texts.
ChunkRecords(texts) ==
    [i \in 1 .. Len(texts) |->
        [source_file |-> "doc.txt", chunk_id |-> i, text |-> texts[i]]]

\* Contents of data/processed/chunks.json: records with and without text.
AllInputs == {ChunkRecords(t) : t \in StringsUpTo(ChunkTexts \cup BlankTexts, MaxInput)}

\* Contents produced from files that all have text.
Corpora == {ChunkRecords(t) : t \in StringsUpTo(ChunkTexts, MaxChunks) \ {<< >>}}

\* _load_chunks, line 160: chunks without text are removed.
RECURSIVE NonEmptyChunks(_)
NonEmptyChunks(chunks) ==
    IF chunks = << >> THEN << >>
    ELSE IF Strip(Head(chunks).text) # << >>
         THEN <<Head(chunks)>> \o NonEmptyChunks(Tail(chunks))
         ELSE NonEmptyChunks(Tail(chunks))

\* texts[i:i + batch_size] for i in range(0, len(texts), batch_size)
Batches(texts, batch_size) ==
    [b \in 1 .. ((Len(texts) + batch_size - 1) \div batch_size) |->
        PySlice(texts, (b - 1) * batch_size, b * batch_size)]

\* model.encode(batch_texts)
EncodeBatch(batch_texts) ==
    [j \in 1 .. Len(batch_texts) |-> ModelEncode(batch_texts[j])]

RECURSIVE VStackReversed(_)
VStackReversed(arrays) ==
    IF arrays = << >> THEN << >>
    ELSE VStackReversed(Tail(arrays)) \o Head(arrays)

\* np.vstack
RECURSIVE VStack(_)
VStack(arrays) ==
    IF arrays = << >> THEN << >> ELSE Head(arrays) \o VStack(Tail(arrays))

\* _generate_embeddings, lines 178-207.
GenerateEmbeddings(texts, batch_size) ==
    LET batches == Batches(texts, batch_size)
        embeddings == [b \in 1 .. Len(batches) |-> EncodeBatch(batches[b])]
        all_embeddings == VStack(embeddings)
    IN [p \in 1 .. Len(all_embeddings) |-> Normalize(all_embeddings[p])]

\* _create_faiss_index, lines 218-234: the vectors in insertion order.
CreateFaissIndex(embeddings) == embeddings

GenIdle == [pc |-> "idle", build |-> 1, chunks |-> << >>, index |-> << >>,
            result |-> <<0, 0>>]

EmbeddingDim == 2

\* process_chunks, lines 105-121: load, embed, build the index in memory.
ProcessChunks ==
    /\ gen.pc = "idle"
    /\ LET chunks == NonEmptyChunks(disk.input)
           texts == [i \in 1 .. Len(chunks) |-> chunks[i].text]
       IN gen' = IF chunks = << >>
                 THEN [gen EXCEPT !.pc = "returned", !.result = <<0, 0>>]
                 ELSE [gen EXCEPT !.pc = "save_index", !.chunks = chunks,
                          !.index = CreateFaissIndex(
                                        GenerateEmbeddings(texts, BatchSize))]
    /\ UNCHANGED <<ct, tk, disk, qe, qlog, llm, kw, cl, pf, bulk, st, wl, pp, rp>>

\* _save_artifacts, line 249: faiss.write_index opens and truncates the file,
SaveIndexOpen ==
    /\ gen.pc = "save_index"
    /\ disk' = [disk EXCEPT !.index = Partial(gen.build)]
    /\ gen' = [gen EXCEPT !.pc = "index_open"]
    /\ UNCHANGED <<ct, tk, qe, qlog, llm, kw, cl, pf, bulk, st, wl, pp, rp>>

\* and completes it.
SaveIndexClose ==
    /\ gen.pc = "index_open"
    /\ disk' = [disk EXCEPT !.index = File(gen.build, gen.index)]
    /\ gen' = [gen EXCEPT !.pc = "save_chunks"]
    /\ UNCHANGED <<ct, tk, qe, qlog, llm, kw, cl, pf, bulk, st, wl, pp, rp>>

\* _save_artifacts, line 254: open(chunks_file, 'w') truncates the file,
SaveChunksOpen ==
    /\ gen.pc = "save_chunks"
    /\ disk' = [disk EXCEPT !.chunks = Partial(gen.build)]
    /\ gen' = [gen EXCEPT !.pc = "chunks_open"]
    /\ UNCHANGED <<ct, tk, qe, qlog, llm, kw, cl, pf, bulk, st, wl, pp, rp>>

\* line 255 and the end of the with block.
SaveChunksClose ==
    /\ gen.pc = "chunks_open"
    /\ disk' = [disk EXCEPT !.chunks = File(gen.build, gen.chunks)]
    /\ gen' = [gen EXCEPT !.pc = "save_info"]
    /\ UNCHANGED <<ct, tk, qe, qlog, llm, kw, cl, pf, bulk, st, wl, pp, rp>>

\* _save_artifacts, line 269: open(info_file, 'w') truncates the file,
SaveInfoOpen ==
    /\ gen.pc = "save_info"
    /\ disk' = [disk EXCEPT !.info = Partial(gen.build)]
    /\ gen' = [gen EXCEPT !.pc = "info_open"]
    /\ UNCHANGED <<ct, tk, qe, qlog, llm, kw, cl, pf, bulk, st, wl, pp, rp>>

\* line 270, the end of the with block, and the return of process_chunks.
SaveInfoClose ==
    /\ gen.pc = "info_open"
    /\ disk' = [disk EXCEPT !.info = File(gen.build, Len(gen.index))]
    /\ gen' = [gen EXCEPT !.pc = "returned",
                          !.result = <<Len(gen.chunks), EmbeddingDim>>]
    /\ UNCHANGED <<ct, tk, qe, qlog, llm, kw, cl, pf, bulk, st, wl, pp, rp>>

\* A later run of the pipeline: the chunker has rewritten
\* data/processed/chunks.json and process_chunks is called again.
Reingest ==
    /\ gen.pc = "returned"
    /\ gen.build < MaxBuilds
    /\ \E input \in Corpora :
          disk' = [disk EXCEPT !.input = input]
    /\ gen' = [GenIdle EXCEPT !.build = gen.build + 1]
    /\ UNCHANGED <<ct, tk, qe, qlog, llm, kw, cl, pf, bulk, st, wl, pp, rp>>

(***************************************************************************)
(* QueryEngine: construction (src/query/query.py, lines 43-116).           *)
(* info_build, index_build and chunks_build record the build that wrote    *)
(* each loaded file. qlog is the record of the last call of query: its     *)
(* arguments, its outcome, and the calls it made to the embedding model    *)
(* and to the index.                                                       *)
(***************************************************************************)
QeNone == [pc |-> "none", k |-> 0, n_vectors |-> 0, index |-> << >>,
           chunks |-> << >>, n_chunks |-> 0, error |-> "",
           info_build |-> 0, index_build |-> 0, chunks_build |-> 0]

QlogNone == [question |-> << >>, k |-> 0, outcome |-> "none",
             encode_calls |-> 0, search_calls |-> 0,
             hits |-> << >>, results |-> << >>,
             context |-> << >>, answer |-> ""]

\* The error raised when a file cannot be loaded, "" when it can.
LoadError(file) ==
    IF file.state = "absent" THEN "FileNotFoundError"
    ELSE IF file.state = "partial" THEN "DecodeError"
    ELSE ""

\* QueryEngine(index_dir, k): lines 54-55.
QueryEngineNew ==
    /\ qe.pc \in {"none", "ready", "failed"}
    /\ \E k \in 1 .. MaxK :
          qe' = [QeNone EXCEPT !.pc = "load_info", !.k = k]
    /\ qlog' = QlogNone
    /\ UNCHANGED <<ct, tk, disk, gen, llm, kw, cl, pf, bulk, st, wl, pp, rp>>

\* _load_index_info, lines 75-89.
LoadIndexInfo ==
    /\ qe.pc = "load_info"
    /\ qe' = IF LoadError(disk.info) # ""
             THEN [qe EXCEPT !.pc = "failed", !.error = LoadError(disk.info)]
             ELSE [qe EXCEPT !.pc = "load_index",
                             !.n_vectors = disk.info.data,
                             !.info_build = disk.info.build]
    /\ UNCHANGED <<ct, tk, disk, gen, qlog, llm, kw, cl, pf, bulk, st, wl, pp, rp>>

\* _load_faiss_index, lines 91-103: a count that differs from n_vectors is
\* logged as a warning and loading goes on.
LoadFaissIndex ==
    /\ qe.pc = "load_index"
    /\ qe' = IF LoadError(disk.index) # ""
             THEN [qe EXCEPT !.pc = "failed", !.error = LoadError(disk.index)]
             ELSE [qe EXCEPT !.pc = "load_chunks",
                             !.index = disk.index.data,
                             !.index_build = disk.index.build]
    /\ UNCHANGED <<ct, tk, disk, gen, qlog, llm, kw, cl, pf, bulk, st, wl, pp, rp>>

\* _load_chunks, lines 105-116, and the end of __init__.
LoadChunks ==
    /\ qe.pc = "load_chunks"
    /\ qe' = IF LoadError(disk.chunks) # ""
             THEN [qe EXCEPT !.pc = "failed", !.error = LoadError(disk.chunks)]
             ELSE [qe EXCEPT !.pc = "ready",
                             !.chunks = disk.chunks.data,
                             !.n_chunks = Len(disk.chunks.data),
                             !.chunks_build = disk.chunks.build]
    /\ UNCHANGED <<ct, tk, disk, gen, qlog, llm, kw, cl, pf, bulk, st, wl, pp, rp>>

(***************************************************************************)
(* The answer-generation collaborator (src/query/llama_model.py) as        *)
(* QueryEngine.query sees it. llm describes the installation: whether      *)
(* .llama_model can be imported, whether a model path was found, whether   *)
(* the file exists, whether the model was loaded (llama-cpp-python present *)
(* and Llama(...) succeeded) and whether a call of the loaded model        *)
(* raises. init_error names the place where the set-up raises an          *)
(* exception other than ImportError: "import" when the import of           *)
(* .llama_model raises it (the print of line 16 on an output that cannot   *)
(* encode it), "mkdir" when models_dir.mkdir of LlamaModel() raises it     *)
(* (line 52), "find_model" when a print of _find_model raises it (lines    *)
(* 83-92, on an output that cannot encode them), "" when nothing is        *)
(* raised. use_llm is the flag the callers of query pass.                  *)
(***************************************************************************)
LlmEnv(importable, model_path, exists, model, raises) ==
    [importable |-> importable, model_path |-> model_path, exists |-> exists,
     model |-> model, raises |-> raises, init_error |-> ""]

\* An installation whose set-up raises at the import or in the constructor
\* (in mkdir or in _find_model); no LlamaModel comes to exist.
LlmEnvBroken(where) ==
    [importable |-> where # "import", model_path |-> FALSE, exists |-> FALSE,
     model |-> FALSE, raises |-> FALSE, init_error |-> where]

LlmEnvs == { LlmEnv(FALSE, FALSE, FALSE, FALSE, FALSE),
             LlmEnv(TRUE, FALSE, FALSE, FALSE, FALSE),
             LlmEnv(TRUE, TRUE, FALSE, FALSE, FALSE),
             LlmEnv(TRUE, TRUE, TRUE, FALSE, FALSE),
             LlmEnv(TRUE, TRUE, TRUE, TRUE, FALSE),
             LlmEnv(TRUE, TRUE, TRUE, TRUE, TRUE),
             LlmEnvBroken("import"),
             LlmEnvBroken("mkdir"),
             LlmEnvBroken("find_model") }

\* A fresh checkout: the module is there, models/ holds no model; callers
\* leave use_llm at its default.
LlmAbsent == [env |-> LlmEnv(TRUE, FALSE, FALSE, FALSE, FALSE), use_llm |-> TRUE]

\* LlamaModel.get_model_info, lines 209-238: the status.
GetModelInfo(env) ==
    IF ~env.model_path THEN "not_configured"
    ELSE IF ~env.exists THEN "not_found"
    ELSE IF ~env.model THEN "not_loaded"
    ELSE "ready"

\* LlamaModel.generate, lines 144-166: the error that leaves the call and
\* the kind of text returned.
Generate(env) ==
    IF ~env.model THEN [error |-> "", answer |-> "fallback"]
    ELSE IF env.raises THEN [error |-> "", answer |-> "fallback"]
    ELSE [error |-> "", answer |-> "generated"]

\* query, lines 145-162: the answer and the error that leaves the block.
\* The block catches ImportError alone (line 158): any other exception of
\* the import (line 147) or of get_llama_model() (line 148, which
\* constructs LlamaModel on every call until one construction succeeds)
\* leaves query.
AnswerWith(l) ==
    IF ~l.use_llm THEN [error |-> "", answer |-> "prompt"]
    ELSE IF l.env.init_error = "import"
    THEN [error |-> "UnicodeEncodeError", answer |-> ""]
    ELSE IF ~l.env.importable
    THEN [error |-> "", answer |-> "prompt+unavailable"]
    ELSE IF l.env.init_error = "mkdir"
    THEN [error |-> "OSError", answer |-> ""]
    ELSE IF l.env.init_error = "find_model"
    THEN [error |-> "UnicodeEncodeError", answer |-> ""]
    ELSE IF GetModelInfo(l.env) = "ready" THEN Generate(l.env)
    ELSE [error |-> "", answer |-> "prompt+status"]

(***************************************************************************)
(* QueryEngine._build_context (lines 229-255). The context is the sequence *)
(* of the parts that '\n'.join puts one per line: headers, chunk texts and *)
(* "---" separators.                                                       *)
(***************************************************************************)
\* Line 247: the header of a result; the score keeps its three decimals
\* (scores are in thousandths).
Header(result) ==
    [kind |-> "header", source |-> result.source_file,
     chunk_id |-> result.chunk_id, score |-> result.score]

TextPart(result) == [kind |-> "text", text |-> result.text]

Separator == [kind |-> "---"]

NeedsSeparatorAlways(i, n) == i < n

\* Line 252: i < len(results) - 1, i counted from 0.
NeedsSeparator(i, n) == i < n - 1

\* Lines 240-253, from the i-th result (counted from 0) on.
RECURSIVE BuildContextFrom(_, _)
BuildContextFrom(results, i) ==
    IF i >= Len(results) THEN << >>
    ELSE <<Header(results[i + 1]), TextPart(results[i + 1])>>
         \o (IF NeedsSeparator(i, Len(results)) THEN <<Separator>> ELSE << >>)
         \o BuildContextFrom(results, i + 1)

BuildContext(results) == BuildContextFrom(results, 0)

(***************************************************************************)
(* QueryEngine.query and _search_similar_chunks (lines 118-227).           *)
(***************************************************************************)
Questions == {<< >>, <<" ">>, <<"a">>, <<"b">>, <<"a", "b">>}

IsEmptyQuestionNoStrip(question) == question = << >>

\* Line 129: not question or not question.strip()
IsEmptyQuestion(question) == question = << >> \/ Strip(question) = << >>

\* _generate_query_embedding, lines 182-191.
GenerateQueryEmbedding(question) == Normalize(ModelEncode(question))

ClampKBelow(k, n_chunks) == Min2(k, n_chunks - 1)

\* Line 204.
ClampK(k, n_chunks) == Min2(k, n_chunks)

\* faiss IndexFlatIP.search(query, k): the possible outputs. Each is a
\* sequence of k hits; the first min(k, ntotal) are the positions of the
\* best-scoring vectors in descending score order (the order among equal
\* scores is not fixed), the others are the filler (-1, lowest float).
FaissSearch(index, query, k) ==
    LET ntotal == Len(index)
        m == Min2(k, ntotal)
        score(p) == InnerProduct(query, index[p + 1])
        orders == {f \in [1 .. m -> 0 .. ntotal - 1] :
                     /\ \A i, j \in 1 .. m : i < j =>
                           f[i] # f[j] /\ score(f[i]) >= score(f[j])
                     /\ \A p \in 0 .. ntotal - 1 :
                           (\A i \in 1 .. m : f[i] # p) =>
                              \A i \in 1 .. m : score(f[i]) >= score(p)}
    IN {[i \in 1 .. k |-> IF i <= m
                          THEN [idx |-> f[i], score |-> score(f[i])]
                          ELSE [idx |-> -1, score |-> -1000000]] :
            f \in orders}

IsInvalidIndexUpperOnly(idx, n_chunks) == idx >= n_chunks

\* Line 212: idx < 0 or idx >= self.n_chunks
IsInvalidIndex(idx, n_chunks) == idx < 0 \/ idx >= n_chunks

PrependResult(results, result) == <<result>> \o results

\* Line 224.
AppendResult(results, result) == Append(results, result)

\* Lines 210-224: the loop over the hits. self.chunks[idx] raises IndexError
\* beyond the end of the list and counts from the end for a negative idx.
RECURSIVE CollectResults(_, _, _, _)
CollectResults(hits, chunks, n_chunks, results) ==
    IF hits = << >> THEN [error |-> "", results |-> results]
    ELSE LET idx == Head(hits).idx
         IN IF IsInvalidIndex(idx, n_chunks)
            THEN CollectResults(Tail(hits), chunks, n_chunks, results)
            ELSE IF idx >= Len(chunks) \/ idx < 0 - Len(chunks)
            THEN [error |-> "IndexError", results |-> results]
            ELSE LET chunk == chunks[IF idx < 0 THEN idx + Len(chunks) + 1
                                     ELSE idx + 1]
                     result == [chunk_id |-> chunk.chunk_id,
                                source_file |-> chunk.source_file,
                                text |-> chunk.text,
                                score |-> Head(hits).score,
                                index |-> idx]
                 IN CollectResults(Tail(hits), chunks, n_chunks,
                                   AppendResult(results, result))

\* query(question, k): k = 0 stands for an omitted (None) or zero k. The
\* model follows the first call on each engine: query assigns no attribute
\* of the engine, so every later call starts from the same engine state.
Query ==
    /\ qe.pc = "ready"
    /\ qlog.outcome = "none"
    /\ \E question \in Questions, karg \in 0 .. MaxK :
         IF IsEmptyQuestion(question)
         THEN /\ qlog' = [question |-> question,
                          k |-> karg, outcome |-> "ValueError",
                          encode_calls |-> 0, search_calls |-> 0,
                          hits |-> << >>, results |-> << >>,
                          context |-> << >>, answer |-> ""]
              /\ qe' = qe
         ELSE LET k == OrDefault(karg, qe.k)
                  query_embedding == GenerateQueryEmbedding(question)
              IN \E hits \in FaissSearch(qe.index, query_embedding,
                                         ClampK(k, qe.n_chunks)) :
                   LET found == CollectResults(hits, qe.chunks, qe.n_chunks, << >>)
                       context == BuildContext(found.results)
                       llama == AnswerWith(llm)
                       returns == found.error = "" /\ llama.error = ""
                   IN /\ qlog' = [question |-> question,
                                  k |-> k,
                                  outcome |-> IF found.error # "" THEN found.error
                                              ELSE IF llama.error # ""
                                              THEN llama.error
                                              ELSE "ok",
                                  encode_calls |-> 1, search_calls |-> 1,
                                  hits |-> hits,
                                  results |-> IF returns
                                              THEN found.results ELSE << >>,
                                  context |-> IF returns THEN context ELSE << >>,
                                  answer |-> IF returns THEN llama.answer ELSE ""]
                      /\ qe' = qe
    /\ UNCHANGED <<ct, tk, disk, gen, llm, kw, cl, pf, bulk, st, wl, pp, rp>>

(***************************************************************************)
(* Keyword search: QueryEngineWithLlama._search_with_keywords              *)
(* (src/query/query_with_llama.py, lines 193-219) and RAGDemo.search       *)
(* (src/rag_demo.py, lines 97-133).                                        *)
(***************************************************************************)
\* str.lower() on the characters of the model.
Lower(c) == IF c = "A" THEN "a" ELSE IF c = "B" THEN "b" ELSE c

LowerStr(s) == [i \in 1 .. Len(s) |-> Lower(s[i])]

\* The characters of the model that \w matches.
WordChars == {"a", "b", "c", "o", "m", "A", "B"}

\* re.findall(r'\w+', s): the maximal runs of word characters, in order.
RECURSIVE FindWords(_, _, _)
FindWords(s, cur, acc) ==
    IF s = << >> THEN (IF cur = << >> THEN acc ELSE Append(acc, cur))
    ELSE IF Head(s) \in WordChars
    THEN FindWords(Tail(s), Append(cur, Head(s)), acc)
    ELSE FindWords(Tail(s), << >>,
                   IF cur = << >> THEN acc ELSE Append(acc, cur))

\* query_with_llama.py, line 199.
StopwordsLlama == { <<"o">>, <<"a">>, <<"d", "e">>, <<"d", "o">>, <<"d", "a">>,
                    <<"q", "u", "e">>, <<"e">>, <<"p", "a", "r", "a">>,
                    <<"c", "o", "m">> }

\* rag_demo.py, line 103.
StopwordsDemo == StopwordsLlama \cup
                 { <<"é">>, <<"u", "m", "a">>, <<"u", "m">>, <<"n", "o">>,
                   <<"n", "a">> }

\* Lines 200 and 104: [w for w in words if w not in stopwords and len(w) > 2]
RECURSIVE FilterWords(_, _)
FilterWords(words, stopwords) ==
    IF words = << >> THEN << >>
    ELSE (IF Head(words) \notin stopwords /\ Len(Head(words)) > 2
          THEN <<Head(words)>> ELSE << >>)
         \o FilterWords(Tail(words), stopwords)

Keywords(question, stopwords) ==
    FilterWords(FindWords(LowerStr(question), << >>, << >>), stopwords)

\* sub occurs in s at 0-based position i.
OccursAt(s, sub, i) ==
    /\ i + Len(sub) <= Len(s)
    /\ \A j \in 1 .. Len(sub) : s[i + j] = sub[j]

\* sub in s
Contains(s, sub) == \E i \in 0 .. Len(s) : OccursAt(s, sub, i)

\* s.count(sub) for a non-empty sub: occurrences that do not overlap,
\* counted from position i on.
RECURSIVE CountFrom(_, _, _)
CountFrom(s, sub, i) ==
    IF i + Len(sub) > Len(s) THEN 0
    ELSE IF OccursAt(s, sub, i) THEN 1 + CountFrom(s, sub, i + Len(sub))
    ELSE CountFrom(s, sub, i + 1)

\* query_with_llama.py, line 206: sum(1 for kw in keywords if kw in text_lower)
RECURSIVE ScoreLlama(_, _)
ScoreLlama(keywords, text_lower) ==
    IF keywords = << >> THEN 0
    ELSE (IF Contains(text_lower, Head(keywords)) THEN 1 ELSE 0)
         + ScoreLlama(Tail(keywords), text_lower)

\* rag_demo.py, lines 112-122.
RECURSIVE ScoreDemo(_, _, _)
ScoreDemo(words, content_lower, title_lower) ==
    IF words = << >> THEN 0
    ELSE CountFrom(content_lower, Head(words), 0) * 1
         + CountFrom(title_lower, Head(words), 0) * 3
         + ScoreDemo(Tail(words), content_lower, title_lower)

InsertByScoreTiesFirst(sorted, r) ==
    LET n == Cardinality({i \in 1 .. Len(sorted) : sorted[i].score > r.score})
    IN SubSeq(sorted, 1, n) \o <<r>> \o SubSeq(sorted, n + 1, Len(sorted))

\* list.sort(key=score, reverse=True) is stable: an entry goes after every
\* entry before it in the list whose score is not smaller.
InsertByScore(sorted, r) ==
    LET n == Cardinality({i \in 1 .. Len(sorted) : sorted[i].score >= r.score})
    IN SubSeq(sorted, 1, n) \o <<r>> \o SubSeq(sorted, n + 1, Len(sorted))

\* Lines 218 and 132.
RECURSIVE SortByScore(_, _)
SortByScore(results, sorted) ==
    IF results = << >> THEN sorted
    ELSE SortByScore(Tail(results), InsertByScore(sorted, Head(results)))

\* results[:k]
TopK(results, k) == PySlice(results, 0, k)

\* Lines 203-215 and 107-129: the entries with a positive score, in the
\* order of the list; pos is the 0-based position of the entry's chunk or
\* document in that list.
RECURSIVE Scored(_, _)
Scored(scores, p) ==
    IF p >= Len(scores) THEN << >>
    ELSE (IF scores[p + 1] > 0
          THEN <<[pos |-> p, score |-> scores[p + 1]]>> ELSE << >>)
         \o Scored(scores, p + 1)

\* The words questions are made of, the chunk texts of a QueryEngineWithLlama
\* and the documents of a RAGDemo.
KwWords == { <<"a", "a", "a">>, <<"B", "b", "b">>, <<"c", "o", "m">>, <<"a", "b">> }

RECURSIVE JoinWords(_)
JoinWords(words) ==
    IF words = << >> THEN << >>
    ELSE IF Len(words) = 1 THEN Head(words)
    ELSE Head(words) \o <<" ">> \o JoinWords(Tail(words))

KwQuestions == {JoinWords(w) : w \in StringsUpTo(KwWords, MaxWords)}

KwTexts == { <<"a", "a", "a">>, <<"b", "b", "b", " ", "A", "a", "a">>,
             <<"a", "a", "a", "a", "a", "a">> }

KwDocs == {[title |-> << >>, content |-> t] : t \in KwTexts}
          \cup {[title |-> <<"A", "a", "a">>, content |-> <<"b", "b", "b">>]}

KwIdle == [pc |-> "idle", engine |-> "", question |-> << >>, k |-> 0,
           docs |-> << >>, scores |-> << >>, results |-> << >>]

\* A keyword search about to be made, on the chunks of a
\* QueryEngineWithLlama or on the documents of a RAGDemo.
InitKeyword ==
    \E question \in KwQuestions, k \in 1 .. MaxK :
       \/ \E texts \in StringsUpTo(KwTexts, MaxChunks) :
            kw = [KwIdle EXCEPT !.pc = "call", !.engine = "llama",
                                !.question = question, !.k = k,
                                !.docs = [i \in 1 .. Len(texts) |->
                                            [title |-> << >>,
                                             content |-> texts[i]]]]
       \/ \E docs \in StringsUpTo(KwDocs, MaxChunks) :
            kw = [KwIdle EXCEPT !.pc = "call", !.engine = "demo",
                                !.question = question, !.k = k,
                                !.docs = docs]

\* QueryEngineWithLlama._search_with_keywords(question, k)
SearchWithKeywords ==
    /\ kw.pc = "call" /\ kw.engine = "llama"
    /\ LET keywords == Keywords(kw.question, StopwordsLlama)
           scores == [p \in 1 .. Len(kw.docs) |->
                        ScoreLlama(keywords, LowerStr(kw.docs[p].content))]
       IN kw' = [kw EXCEPT !.pc = "done", !.scores = scores,
                           !.results = TopK(SortByScore(Scored(scores, 0), << >>),
                                            kw.k)]
    /\ UNCHANGED <<ct, tk, disk, gen, qe, qlog, llm, cl, pf, bulk, st, wl, pp, rp>>

\* RAGDemo.search(query, k)
RagDemoSearch ==
    /\ kw.pc = "call" /\ kw.engine = "demo"
    /\ LET words == Keywords(kw.question, StopwordsDemo)
           scores == [p \in 1 .. Len(kw.docs) |->
                        ScoreDemo(words, LowerStr(kw.docs[p].content),
                                  LowerStr(kw.docs[p].title))]
       IN kw' = [kw EXCEPT !.pc = "done", !.scores = scores,
                           !.results = TopK(SortByScore(Scored(scores, 0), << >>),
                                            kw.k)]
    /\ UNCHANGED <<ct, tk, disk, gen, qe, qlog, llm, cl, pf, bulk, st, wl, pp, rp>>

(***************************************************************************)
(* DocumentProcessor.clean_text (src/ingest_fixed.py, lines 37-65). Each   *)
(* re.sub is the scan Python makes: leftmost match first, matches do not   *)
(* overlap, quantifiers are greedy.                                        *)
(***************************************************************************)
\* The characters of the model matched by \w, by [.,;:!?], by [A-Za-zÀ-ÿ],
\* and the control characters (ord < 32) other than the newline.
CleanWordChars == {"a", "b"}
Punctuation == {".", ",", ";", ":", "!", "?"}
Letters == {"a", "b"}
ControlChars == {"\t"}

\* Line 40: keep '\n' and the characters with ord(char) >= 32.
RECURSIVE DropControl(_)
DropControl(s) ==
    IF s = << >> THEN << >>
    ELSE (IF Head(s) \in ControlChars THEN << >> ELSE <<Head(s)>>)
         \o DropControl(Tail(s))

\* The length of the run of characters of set S that starts at 0-based i.
RECURSIVE RunLen(_, _, _)
RunLen(s, i, S) ==
    IF i < Len(s) /\ s[i + 1] \in S THEN 1 + RunLen(s, i + 1, S) ELSE 0

\* re.sub(c{min,}, repl): every run of at least min characters c becomes repl.
RECURSIVE CollapseRuns(_, _, _, _, _)
CollapseRuns(s, i, c, min, repl) ==
    IF i >= Len(s) THEN << >>
    ELSE LET n == RunLen(s, i, {c})
         IN IF n >= min THEN repl \o CollapseRuns(s, i + n, c, min, repl)
            ELSE <<s[i + 1]>> \o CollapseRuns(s, i + 1, c, min, repl)

\* Lines 49-51: split('\n'), strip every line, join with '\n'.
RECURSIVE StripLines(_, _)
StripLines(s, line) ==
    IF s = << >> THEN Strip(line)
    ELSE IF Head(s) = "\n" THEN Strip(line) \o <<"\n">> \o StripLines(Tail(s), << >>)
    ELSE StripLines(Tail(s), Append(line, Head(s)))

\* Line 54: re.sub(r'\n\s*\n', '\n\n', text). A match starts at a newline
\* and runs to the last newline of the whitespace that follows it.
RECURSIVE BlankLines(_, _)
BlankLines(s, i) ==
    IF i >= Len(s) THEN << >>
    ELSE LET n == RunLen(s, i, Whitespace)
             ends == {j \in i + 1 .. i + n - 1 : s[j + 1] = "\n"}
         IN IF s[i + 1] = "\n" /\ ends # {}
            THEN <<"\n", "\n">> \o BlankLines(s, SetMax(ends) + 1)
            ELSE <<s[i + 1]>> \o BlankLines(s, i + 1)

\* Line 57: re.sub(r'(\w+)-\n(\w+)', r'\1\2', text).
RECURSIVE JoinHyphens(_, _)
JoinHyphens(s, i) ==
    IF i >= Len(s) THEN << >>
    ELSE LET a == RunLen(s, i, CleanWordChars)
             b == RunLen(s, i + a + 2, CleanWordChars)
         IN IF /\ a > 0 /\ i + a + 2 < Len(s)
               /\ s[i + a + 1] = "-" /\ s[i + a + 2] = "\n" /\ b > 0
            THEN SubSeq(s, i + 1, i + a)
                 \o SubSeq(s, i + a + 3, i + a + 2 + b)
                 \o JoinHyphens(s, i + a + 2 + b)
            ELSE <<s[i + 1]>> \o JoinHyphens(s, i + 1)

\* Line 60: re.sub(r'\s+([.,;:!?])', r'\1', text).
RECURSIVE SpaceBeforePunct(_, _)
SpaceBeforePunct(s, i) ==
    IF i >= Len(s) THEN << >>
    ELSE LET n == RunLen(s, i, Whitespace)
         IN IF n > 0 /\ i + n < Len(s) /\ s[i + n + 1] \in Punctuation
            THEN <<s[i + n + 1]>> \o SpaceBeforePunct(s, i + n + 1)
            ELSE <<s[i + 1]>> \o SpaceBeforePunct(s, i + 1)

\* Line 63: re.sub(r'([.,;:!?])(?=[A-Za-zÀ-ÿ])', r'\1 ', text).
RECURSIVE SpaceAfterPunct(_, _)
SpaceAfterPunct(s, i) ==
    IF i >= Len(s) THEN << >>
    ELSE (IF /\ s[i + 1] \in Punctuation
             /\ i + 1 < Len(s) /\ s[i + 2] \in Letters
          THEN <<s[i + 1], " ">> ELSE <<s[i + 1]>>)
         \o SpaceAfterPunct(s, i + 1)

clean_text(text) ==
    LET t1 == DropControl(text)
        t2 == CollapseRuns(t1, 0, "\n", 3, <<"\n", "\n">>)
        t3 == CollapseRuns(t2, 0, " ", 2, <<" ">>)
        t4 == StripLines(t3, << >>)
        t5 == BlankLines(t4, 0)
        t6 == JoinHyphens(t5, 0)
        t7 == SpaceBeforePunct(t6, 0)
        t8 == SpaceAfterPunct(t7, 0)
    IN Strip(t8)

CleanAlphabet == {"a", "-", "\n", " ", "."}

ClIdle == [pc |-> "idle", text |-> << >>, once |-> << >>, twice |-> << >>]

\* A document text about to be cleaned.
InitClean ==
    \E text \in StringsUpTo(CleanAlphabet, MaxCleanLen) :
        cl = [ClIdle EXCEPT !.pc = "call", !.text = text]

\* clean_text(text)
CleanText ==
    /\ cl.pc = "call"
    /\ cl' = [cl EXCEPT !.pc = "cleaned", !.once = clean_text(cl.text)]
    /\ UNCHANGED <<ct, tk, disk, gen, qe, qlog, llm, kw, pf, bulk, st, wl, pp, rp>>

\* clean_text applied to a text that clean_text returned.
CleanTextAgain ==
    /\ cl.pc = "cleaned"
    /\ cl' = [cl EXCEPT !.pc = "recleaned", !.twice = clean_text(cl.once)]
    /\ UNCHANGED <<ct, tk, disk, gen, qe, qlog, llm, kw, pf, bulk, st, wl, pp, rp>>

(***************************************************************************)
(* DocumentProcessor.process_file (src/ingest_fixed.py, lines 166-223).    *)
(* A file is the number of chunks its cleaned text is cut into, 0 for a    *)
(* file that is empty after cleaning. The vector store holds one vector    *)
(* per id (file, chunk_id); run tells which call of process_file wrote it. *)
(***************************************************************************)
\* Line 210: if len(vectors_to_upsert) >= 10
UpsertEvery == 10

\* pinecone_index.upsert(vectors): a vector replaces the one with its id.
Upsert(store, vectors) ==
    LET new == {vectors[i] : i \in 1 .. Len(vectors)}
    IN {v \in store : \A w \in new : w.id # v.id} \cup new

\* Line 202: vector_id = f"{filepath.stem}_chunk_{i+1}"
VectorId(stem, n) == <<stem, "_chunk_", n>>

NewVectorZeroBased(i, run) ==
    [id |-> VectorId("doc", i), file |-> "doc", chunk_id |-> i, run |-> run]

\* Lines 191-207: the vector of the chunk at position i of the list; run tells
\* which call of process_file made it.
NewVector(i, run) ==
    [id |-> VectorId("doc", i + 1), file |-> "doc", chunk_id |-> i + 1,
     run |-> run]

PfIdle == [pc |-> "idle", n_chunks |-> 0, i |-> 0, vectors_to_upsert |-> << >>,
           store |-> {}, before |-> {}, failed |-> FALSE, ret |-> -1,
           upserts |-> << >>]

\* The stores process_file may find: empty, or holding the vectors an
\* earlier run wrote for the same file.
InitialStores ==
    {{NewVector(i, 0) : i \in 0 .. n - 1} : n \in 0 .. 2}

\* A call process_file(filepath) about to be made.
InitProcessFile ==
    \E n \in 0 .. MaxFileChunks, store \in InitialStores :
        pf = [PfIdle EXCEPT !.pc = "call", !.n_chunks = n,
                            !.store = store, !.before = store]

\* Lines 170-187: read, clean, the empty-file return, chunk_text.
ProcessFileOpen ==
    /\ pf.pc = "call"
    /\ pf' = IF pf.n_chunks = 0
             THEN [pf EXCEPT !.pc = "done", !.ret = 0]
             ELSE [pf EXCEPT !.pc = "loop", !.i = 0, !.vectors_to_upsert = << >>]
    /\ UNCHANGED <<ct, tk, disk, gen, qe, qlog, llm, kw, cl, bulk, st, wl, pp, rp>>

\* Lines 189-212: one iteration of the loop over the chunks. generate_metadata
\* returns defaults on failure; get_embedding raises on failure, which ends
\* the call in the handler of lines 221-223.
ProcessChunk ==
    /\ pf.pc = "loop"
    /\ pf.i < pf.n_chunks
    /\ \E embedded \in BOOLEAN :
         IF ~embedded
         THEN pf' = [pf EXCEPT !.pc = "done", !.failed = TRUE, !.ret = 0]
         ELSE LET vectors == Append(pf.vectors_to_upsert, NewVector(pf.i, 1))
              IN pf' = IF Len(vectors) >= UpsertEvery
                       THEN [pf EXCEPT !.i = pf.i + 1,
                                       !.store = Upsert(pf.store, vectors),
                                       !.upserts = Append(@, vectors),
                                       !.vectors_to_upsert = << >>]
                       ELSE [pf EXCEPT !.i = pf.i + 1,
                                       !.vectors_to_upsert = vectors]
    /\ UNCHANGED <<ct, tk, disk, gen, qe, qlog, llm, kw, cl, bulk, st, wl, pp, rp>>

\* Lines 214-219: the vectors left over are upserted, the chunk count is
\* returned.
ProcessFileFinish ==
    /\ pf.pc = "loop"
    /\ pf.i = pf.n_chunks
    /\ pf' = [pf EXCEPT !.pc = "done", !.ret = pf.n_chunks,
                        !.store = IF pf.vectors_to_upsert # << >>
                                  THEN Upsert(pf.store, pf.vectors_to_upsert)
                                  ELSE pf.store,
                        !.upserts = IF pf.vectors_to_upsert # << >>
                                    THEN Append(@, pf.vectors_to_upsert)
                                    ELSE @,
                        !.vectors_to_upsert = << >>]
    /\ UNCHANGED <<ct, tk, disk, gen, qe, qlog, llm, kw, cl, bulk, st, wl, pp, rp>>

(***************************************************************************)
(* Bulk runs: TextChunker.process_all_texts (src/ingest/chunk.py, lines    *)
(* 87-130) and DocumentProcessor.process_directory (src/ingest_fixed.py,   *)
(* lines 225-250). An input file is what its processing meets: whether it  *)
(* can be read, the number of chunks its text is cut into (0 for a blank   *)
(* file), and the chunk at which a collaborator raises (0 for none).       *)
(***************************************************************************)
BulkFiles ==
    {[readable |-> FALSE, n_chunks |-> 0, fail_at |-> 0]}
    \cup {file \in [readable : {TRUE}, n_chunks : 0 .. MaxBulkChunks,
                    fail_at : 0 .. MaxBulkChunks] :
            file.fail_at <= file.n_chunks}

RECURSIVE SeqsUpTo(_, _)
SeqsUpTo(S, n) ==
    IF n = 0 THEN {<< >>}
    ELSE LET shorter == SeqsUpTo(S, n - 1)
         IN shorter \cup {Append(s, x) : s \in {t \in shorter : Len(t) = n - 1},
                                         x \in S}

RECURSIVE SumSeq(_)
SumSeq(s) == IF s = << >> THEN 0 ELSE s[1] + SumSeq(Tail(s))

\* TextChunker.process_text_file (chunk.py, lines 132-179): the length of the
\* list it returns. Every exception is caught and yields the empty list.
ProcessTextFile(file) ==
    IF ~file.readable \/ file.n_chunks = 0 \/ file.fail_at > 0
    THEN 0
    ELSE file.n_chunks

\* DocumentProcessor.process_file (ingest_fixed.py, lines 166-223): the count
\* it returns, 0 for an empty file and for every exception.
ProcessFile(file) ==
    IF ~file.readable THEN 0
    ELSE IF file.n_chunks = 0 THEN 0
    ELSE IF file.fail_at > 0 THEN 0
    ELSE file.n_chunks

\* chunk.py, lines 112-116: a file is counted as processed or as skipped.
CountTextFileProcessedOnly(stats, chunks) ==
    IF chunks > 0
    THEN [stats EXCEPT !.files_processed = @ + 1]
    ELSE stats

CountTextFile(stats, chunks) ==
    IF chunks > 0
    THEN [stats EXCEPT !.files_processed = @ + 1]
    ELSE [stats EXCEPT !.files_skipped = @ + 1]

\* ingest_fixed.py, lines 244-248.
CountFile(stats, chunks) ==
    IF chunks > 0
    THEN [stats EXCEPT !.files_processed = @ + 1, !.total_chunks = @ + chunks]
    ELSE [stats EXCEPT !.failed_files = @ + 1]

BulkIdle == [pc |-> "idle", runner |-> "none", files |-> << >>, i |-> 0,
             all_chunks |-> 0, returned |-> << >>, stats |-> << >>]

\* A bulk run about to be made on the files of the input directory.
InitBulk ==
    \E files \in SeqsUpTo(BulkFiles, MaxBulkFiles),
       runner \in {"TextChunker", "DocumentProcessor"} :
        bulk = [BulkIdle EXCEPT !.pc = "call", !.runner = runner,
                                !.files = files]

\* chunk.py, lines 93-107.
ProcessAllTexts ==
    /\ bulk.pc = "call"
    /\ bulk.runner = "TextChunker"
    /\ bulk' = IF bulk.files = << >>
               THEN [bulk EXCEPT !.pc = "done",
                                 !.stats = [total_files |-> 0, total_chunks |-> 0,
                                            files_processed |-> 0,
                                            files_skipped |-> 0]]
               ELSE [bulk EXCEPT !.pc = "loop", !.i = 0, !.all_chunks = 0,
                                 !.stats = [total_files |-> Len(bulk.files),
                                            total_chunks |-> 0,
                                            files_processed |-> 0,
                                            files_skipped |-> 0]]
    /\ UNCHANGED <<ct, tk, disk, gen, qe, qlog, llm, kw, cl, pf, st, wl, pp, rp>>

\* chunk.py, lines 109-119: one iteration of the loop over the files.
ProcessAllTextsFile ==
    /\ bulk.pc = "loop"
    /\ bulk.runner = "TextChunker"
    /\ bulk.i < Len(bulk.files)
    /\ LET chunks == ProcessTextFile(bulk.files[bulk.i + 1])
       IN bulk' = [bulk EXCEPT !.i = @ + 1,
                               !.all_chunks = @ + chunks,
                               !.returned = Append(@, chunks),
                               !.stats = CountTextFile(@, chunks)]
    /\ UNCHANGED <<ct, tk, disk, gen, qe, qlog, llm, kw, cl, pf, st, wl, pp, rp>>

\* chunk.py, lines 121-130: the chunk total, the save of chunks.json (not
\* guarded: its exception leaves process_all_texts) and the return.
ProcessAllTextsFinish ==
    /\ bulk.pc = "loop"
    /\ bulk.runner = "TextChunker"
    /\ bulk.i = Len(bulk.files)
    /\ \E saved \in BOOLEAN :
         bulk' = [bulk EXCEPT !.stats.total_chunks = bulk.all_chunks,
                              !.pc = IF bulk.all_chunks > 0 /\ ~saved
                                     THEN "raised"
                                     ELSE "done"]
    /\ UNCHANGED <<ct, tk, disk, gen, qe, qlog, llm, kw, cl, pf, st, wl, pp, rp>>

\* ingest_fixed.py, lines 227-240.
ProcessDirectory ==
    /\ bulk.pc = "call"
    /\ bulk.runner = "DocumentProcessor"
    /\ bulk' = [bulk EXCEPT !.pc = IF bulk.files = << >> THEN "done" ELSE "loop",
                            !.i = 0,
                            !.stats = [files_processed |-> 0, total_chunks |-> 0,
                                       failed_files |-> 0]]
    /\ UNCHANGED <<ct, tk, disk, gen, qe, qlog, llm, kw, cl, pf, st, wl, pp, rp>>

\* ingest_fixed.py, lines 242-248: one iteration of the loop over the files.
ProcessDirectoryFile ==
    /\ bulk.pc = "loop"
    /\ bulk.runner = "DocumentProcessor"
    /\ bulk.i < Len(bulk.files)
    /\ LET chunks == ProcessFile(bulk.files[bulk.i + 1])
       IN bulk' = [bulk EXCEPT !.i = @ + 1,
                               !.returned = Append(@, chunks),
                               !.stats = CountFile(@, chunks)]
    /\ UNCHANGED <<ct, tk, disk, gen, qe, qlog, llm, kw, cl, pf, st, wl, pp, rp>>

\* ingest_fixed.py, line 250.
ProcessDirectoryReturn ==
    /\ bulk.pc = "loop"
    /\ bulk.runner = "DocumentProcessor"
    /\ bulk.i = Len(bulk.files)
    /\ bulk' = [bulk EXCEPT !.pc = "done"]
    /\ UNCHANGED <<ct, tk, disk, gen, qe, qlog, llm, kw, cl, pf, st, wl, pp, rp>>

(***************************************************************************)
(* VectorSearchTool and search_vectorstore (src/search_tool.py). The       *)
(* embedding of a text is "vec", the empty list or None; the vector store  *)
(* holds a list of matches in decreasing similarity. An outcome is what a  *)
(* call hands to its caller: a returned list, or an exception (raised).    *)
(* The tools of a process are the singleton of get_tool_instance and one   *)
(* instance constructed directly with VectorSearchTool().                  *)
(***************************************************************************)
\* Line 85: @lru_cache(maxsize=128).
maxsize == 128

\* Line 44: top_k: int = 5.
DefaultTopK == 5

\* Line 45: min_score: float = 0.0.
DefaultMinScore == 0

None == "None"

\* Line 109: an embedding of no components, data[0].embedding = [].
EmptyList == "[]"

\* The capacity of the cache in the model.
CacheCapacity == Min2(maxsize, MaxCache)

\* Line 204: the text health_check embeds.
TestText == <<"t", "e", "s", "t">>

SearchTexts == {<< >>, TestText}

\* Lines 220 and 232-235: the singleton; test_production_simulation.py line
\* 247: an instance constructed directly.
Singleton == "singleton"
Direct == "direct"

\* What the embedding provider does with a request: it answers with an
\* embedding, answers 200 with an empty embedding, or fails (another status,
\* a timeout, any exception).
ProviderAnswers == {"ok", "empty", "down"}

Match(score, text) == [score |-> score, text |-> text]

StoreContents ==
    {<< >>,
     <<Match(1, "t1")>>,
     <<Match(1, "t1"), Match(1, ""), Match(-1, "t2"), Match(-1, "t3")>>}

\* Line 85: lru_cache on a method keys an entry by its arguments, self
\* included; the one cache is shared by every instance.
CacheIndex(cache, self, text) ==
    IF \E i \in 1 .. Len(cache) : cache[i].self = self /\ cache[i].text = text
    THEN CHOOSE i \in 1 .. Len(cache) :
             cache[i].self = self /\ cache[i].text = text
    ELSE 0

Remove(s, i) == SubSeq(s, 1, i - 1) \o SubSeq(s, i + 1, Len(s))

\* functools.lru_cache, a hit: the entry becomes the most recently used.
LruTouch(cache, i) == Append(Remove(cache, i), cache[i])

\* functools.lru_cache, a miss: the value the function returned is stored,
\* whatever it is, and the least recently used entry is dropped from a full
\* cache.
LruStoreSuccessOnly(cache, self, text, value) ==
    IF value = None THEN cache
    ELSE IF Len(cache) >= CacheCapacity
    THEN Append(Tail(cache), [self |-> self, text |-> text, value |-> value])
    ELSE Append(cache, [self |-> self, text |-> text, value |-> value])

LruStore(cache, self, text, value) ==
    IF Len(cache) >= CacheCapacity
    THEN Append(Tail(cache), [self |-> self, text |-> text, value |-> value])
    ELSE Append(cache, [self |-> self, text |-> text, value |-> value])

\* Lines 96-118: the value _get_embedding computes when it is called.
GetEmbedding(provider) ==
    IF provider = "ok" THEN "vec"
    ELSE IF provider = "empty" THEN EmptyList
    ELSE None

\* Lines 85-86: _get_embedding behind its cache.
CachedEmbedding(cache, self, text, provider) ==
    LET i == CacheIndex(cache, self, text)
    IN IF i > 0
       THEN [value |-> cache[i].value, cache |-> LruTouch(cache, i),
             contacted |-> FALSE]
       ELSE [value |-> GetEmbedding(provider),
             cache |-> LruStore(cache, self, text, GetEmbedding(provider)),
             contacted |-> TRUE]

\* Line 143: not query_vector, true of None and of the empty list.
IsFalsy(value) == value = None \/ value = EmptyList

\* Lines 160-184: the texts of the matches that pass the score filter.
RECURSIVE ProcessedResults(_)
ProcessedResults(results) ==
    IF results = << >> THEN << >>
    ELSE LET match == Head(results)
             rest == ProcessedResults(Tail(results))
         IN IF match.score < DefaultMinScore THEN rest
            ELSE IF match.text = "" THEN rest
            ELSE <<match.text>> \o rest

\* Lines 151-157: index.query returns the top_k best matches.
IndexQuery(matches, top_k) == SubSeq(matches, 1, Min2(top_k, Len(matches)))

Returned(list) == [raised |-> FALSE, ret |-> list]
Raised == [raised |-> TRUE, ret |-> << >>]

\* Lines 186-188 and 271-273: except Exception: return [].
Propagate(outcome) == outcome

ReturnEmptyOnException(outcome) ==
    IF outcome.raised THEN Returned(<< >>) ELSE outcome

\* Lines 139-188: VectorSearchTool.search, the state of the cache after it
\* included.
Search(cache, self, query, top_k, provider, store_ok, matches) ==
    LET emb == CachedEmbedding(cache, self, query, provider)
        k == OrDefault(top_k, DefaultTopK)
    IN IF IsFalsy(emb.value)
       THEN [outcome |-> Returned(<< >>), cache |-> emb.cache,
             contacted |-> emb.contacted, queried |-> FALSE]
       ELSE [outcome |-> ReturnEmptyOnException(
                            IF store_ok
                            THEN Returned(ProcessedResults(IndexQuery(matches, k)))
                            ELSE Raised),
             cache |-> emb.cache, contacted |-> emb.contacted,
             queried |-> TRUE]

\* Lines 197-200: the dictionary health_check starts from.
NoHealth == [openai |-> FALSE, pinecone |-> FALSE]

\* op names the function called last: "get_tool_instance",
\* "VectorSearchTool", "search_vectorstore", "search" or "health_check";
\* self is the tool it ran on; health is what health_check returned.
NoCall == [called |-> FALSE, op |-> "none", self |-> Singleton,
           query |-> << >>,
           outcome |-> Returned(<< >>), health |-> NoHealth,
           provider |-> "ok", cons_failed |-> FALSE, emb_failed |-> FALSE,
           store_failed |-> FALSE, contacted |-> FALSE]

\* tool: _tool_instance is not None; direct: the directly constructed
\* instance exists. failed_texts holds the cache keys <<self, text>> whose
\* entry is a cached failure.
StIdle == [tool |-> FALSE, direct |-> FALSE, cache |-> << >>,
           matches |-> << >>, failed_texts |-> {}, last |-> NoCall]

\* The tools that exist.
Tools(s) == (IF s.tool THEN {Singleton} ELSE {})
            \cup (IF s.direct THEN {Direct} ELSE {})

\* The keys of failed_texts after a use of the cache by self for text.
FailedAfter(failed, before, emb, self, text) ==
    LET evicted == {<<before[i].self, before[i].text>> : i \in 1 .. Len(before)}
                   \ {<<emb.cache[i].self, emb.cache[i].text>> :
                        i \in 1 .. Len(emb.cache)}
    IN IF ~emb.contacted THEN failed
       ELSE IF emb.value = None
       THEN (failed \ evicted) \cup {<<self, text>>}
       ELSE (failed \ evicted) \ {<<self, text>>}

\* A process in which no function of the module has been called yet.
InitSearchTool ==
    \E matches \in StoreContents : st = [StIdle EXCEPT !.matches = matches]

\* Lines 222-235: get_tool_instance(). constructible tells whether
\* VectorSearchTool(**kwargs) succeeds (lines 59-83); its exception reaches
\* the caller.
GetToolInstance ==
    /\ \E constructible \in BOOLEAN :
           LET tool == st.tool \/ constructible
           IN st' = [st EXCEPT
                       !.tool = tool,
                       !.last = [NoCall EXCEPT
                                   !.called = TRUE,
                                   !.op = "get_tool_instance",
                                   !.outcome = IF tool THEN Returned(<< >>)
                                               ELSE Raised,
                                   !.cons_failed = ~tool]]
    /\ UNCHANGED <<ct, tk, disk, gen, qe, qlog, llm, kw, cl, pf, bulk, wl, pp, rp>>

\* Lines 38-83: VectorSearchTool(), called directly.
VectorSearchToolNew ==
    /\ ~st.direct
    /\ \E constructible \in BOOLEAN :
           st' = [st EXCEPT
                    !.direct = constructible,
                    !.last = [NoCall EXCEPT
                                !.called = TRUE,
                                !.op = "VectorSearchTool",
                                !.self = Direct,
                                !.outcome = IF constructible THEN Returned(<< >>)
                                            ELSE Raised,
                                !.cons_failed = ~constructible]]
    /\ UNCHANGED <<ct, tk, disk, gen, qe, qlog, llm, kw, cl, pf, bulk, wl, pp, rp>>

\* Lines 268-273: search_vectorstore(query, top_k), top_k omitted (0) or
\* given. constructible tells whether VectorSearchTool(**kwargs) succeeds
\* when get_tool_instance has to construct the tool (lines 59-83, 232-235).
SearchVectorstore ==
    /\ \E query \in SearchTexts, top_k \in {0, MaxTopK},
          constructible \in BOOLEAN, provider \in ProviderAnswers,
          store_ok \in BOOLEAN :
           LET tool == st.tool \/ constructible
               emb == CachedEmbedding(st.cache, Singleton, query, provider)
               found == Search(st.cache, Singleton, query, top_k, provider,
                               store_ok, st.matches)
           IN IF ~tool
              THEN st' = [st EXCEPT
                           !.last = [NoCall EXCEPT
                                       !.called = TRUE,
                                       !.op = "search_vectorstore",
                                       !.query = query,
                                       !.outcome = ReturnEmptyOnException(Raised),
                                       !.provider = provider,
                                       !.cons_failed = TRUE]]
              ELSE st' = [st EXCEPT
                           !.tool = TRUE,
                           !.cache = found.cache,
                           !.failed_texts = FailedAfter(@, st.cache, emb,
                                                        Singleton, query),
                           !.last = [NoCall EXCEPT
                                       !.called = TRUE,
                                       !.op = "search_vectorstore",
                                       !.query = query,
                                       !.outcome = ReturnEmptyOnException(found.outcome),
                                       !.provider = provider,
                                       !.emb_failed = found.contacted
                                                      /\ provider = "down",
                                       !.store_failed = found.queried /\ ~store_ok,
                                       !.contacted = found.contacted]]
    /\ UNCHANGED <<ct, tk, disk, gen, qe, qlog, llm, kw, cl, pf, bulk, wl, pp, rp>>

\* Lines 120-188: tool.search(query, top_k) on a tool that exists.
ToolSearch ==
    /\ \E self \in Tools(st), query \in SearchTexts, top_k \in {0, MaxTopK},
          provider \in ProviderAnswers, store_ok \in BOOLEAN :
           LET emb == CachedEmbedding(st.cache, self, query, provider)
               found == Search(st.cache, self, query, top_k, provider,
                               store_ok, st.matches)
           IN st' = [st EXCEPT
                       !.cache = found.cache,
                       !.failed_texts = FailedAfter(@, st.cache, emb, self, query),
                       !.last = [NoCall EXCEPT
                                   !.called = TRUE,
                                   !.op = "search",
                                   !.self = self,
                                   !.query = query,
                                   !.outcome = found.outcome,
                                   !.provider = provider,
                                   !.emb_failed = found.contacted
                                                  /\ provider = "down",
                                   !.store_failed = found.queried /\ ~store_ok,
                                   !.contacted = found.contacted]]
    /\ UNCHANGED <<ct, tk, disk, gen, qe, qlog, llm, kw, cl, pf, bulk, wl, pp, rp>>

\* Lines 190-216: tool.health_check() on a tool that exists. It embeds
\* "test" through the cached _get_embedding (line 204), so the call reads
\* and changes the same LRU cache as the searches, and asks the index for
\* its statistics (line 211); both failures are swallowed. openai is
\* "is not None" (line 205): true of an empty embedding.
HealthCheck ==
    /\ \E self \in Tools(st), provider \in ProviderAnswers, store_ok \in BOOLEAN :
           LET emb == CachedEmbedding(st.cache, self, TestText, provider)
           IN st' = [st EXCEPT
                       !.cache = emb.cache,
                       !.failed_texts = FailedAfter(@, st.cache, emb, self,
                                                    TestText),
                       !.last = [NoCall EXCEPT
                                   !.called = TRUE,
                                   !.op = "health_check",
                                   !.self = self,
                                   !.query = TestText,
                                   !.health = [openai |-> emb.value # None,
                                               pinecone |-> store_ok],
                                   !.provider = provider,
                                   !.emb_failed = emb.contacted
                                                  /\ provider = "down",
                                   !.store_failed = ~store_ok,
                                   !.contacted = emb.contacted]]
    /\ UNCHANGED <<ct, tk, disk, gen, qe, qlog, llm, kw, cl, pf, bulk, wl, pp, rp>>

(***************************************************************************)
(* QueryEngineWithLlama (src/query/query_with_llama.py): construction from *)
(* the index directory and query. importable tells whether faiss and       *)
(* sentence_transformers can be imported.                                  *)
(***************************************************************************)
\* Lines 112-128: the built-in sample chunks. Their texts are abbreviated to
\* words the questions of the model are made of.
SampleChunks ==
    << [source_file |-> "estatuto_ufcspa.txt", chunk_id |-> 1,
        text |-> <<"a", "a", "a">>],
       [source_file |-> "normas_extensao.txt", chunk_id |-> 2,
        text |-> <<"b", "b", "b">>],
       [source_file |-> "regimento_interno.txt", chunk_id |-> 3,
        text |-> <<"a", "a", "a", " ", "b", "b", "b">>] >>

\* Lines 68-100: _try_load_faiss. Every exception yields False.
TryLoadFaiss(importable, info, index) ==
    IF ~importable THEN FALSE
    ELSE IF info.state = "absent" THEN FALSE
    ELSE IF info.state = "partial" THEN FALSE
    ELSE IF index.state = "absent" THEN FALSE
    ELSE IF index.state = "partial" THEN FALSE
    ELSE TRUE

\* Lines 104-128: the chunk records _load_chunks leaves in self.chunks when
\* json.load does not raise.
LoadChunksOrSample(file) ==
    IF file.state = "ok" THEN [origin |-> "snapshot", chunks |-> file.data]
    ELSE [origin |-> "sample", chunks |-> SampleChunks]

WlNone == [pc |-> "none", k |-> 0, has_faiss |-> FALSE, index |-> << >>,
           chunks |-> << >>, n_chunks |-> 0, origin |-> "none",
           asked |-> FALSE, question |-> << >>, results |-> << >>]

\* Lines 36-66: QueryEngineWithLlama(index_dir, k). A truncated chunks.json
\* makes json.load raise out of the constructor.
QueryEngineWithLlamaNew ==
    /\ wl.pc = "none"
    /\ \E k \in 1 .. MaxK, importable \in BOOLEAN :
         LET has_faiss == TryLoadFaiss(importable, disk.info, disk.index)
             loaded == LoadChunksOrSample(disk.chunks)
         IN wl' = IF disk.chunks.state = "partial"
                  THEN [wl EXCEPT !.pc = "raised", !.k = k,
                                  !.has_faiss = has_faiss]
                  ELSE [wl EXCEPT !.pc = "ready",
                                  !.k = k,
                                  !.has_faiss = has_faiss,
                                  !.index = IF has_faiss THEN disk.index.data
                                            ELSE << >>,
                                  !.chunks = loaded.chunks,
                                  !.n_chunks = Len(loaded.chunks),
                                  !.origin = loaded.origin]
    /\ UNCHANGED <<ct, tk, disk, gen, qe, qlog, llm, kw, cl, pf, bulk, st, pp, rp>>

\* Lines 179-191: the hits whose index lies in the chunk list.
RECURSIVE FaissResults(_, _, _)
FaissResults(hits, chunks, n_chunks) ==
    IF hits = << >> THEN << >>
    ELSE LET idx == Head(hits).idx
             rest == FaissResults(Tail(hits), chunks, n_chunks)
         IN IF 0 <= idx /\ idx < n_chunks
            THEN <<[chunk_id |-> chunks[idx + 1].chunk_id,
                    source_file |-> chunks[idx + 1].source_file,
                    text |-> chunks[idx + 1].text,
                    score |-> Head(hits).score, method |-> "faiss"]>> \o rest
            ELSE rest

\* Lines 204-219: the keyword results as records.
KeywordResults(keywords, chunks, k) ==
    LET scores == [p \in 1 .. Len(chunks) |->
                     ScoreLlama(keywords, LowerStr(chunks[p].text))]
        top == TopK(SortByScore(Scored(scores, 0), << >>), k)
    IN [i \in 1 .. Len(top) |->
          [chunk_id |-> chunks[top[i].pos + 1].chunk_id,
           source_file |-> chunks[top[i].pos + 1].source_file,
           text |-> chunks[top[i].pos + 1].text,
           score |-> top[i].score, method |-> "keywords"]]

LlamaQuestions == {<< >>} \cup KwWords

\* Lines 142-149: query(question, k) up to the search; the first query on an
\* engine is recorded.
QueryWithLlama ==
    /\ wl.pc = "ready"
    /\ ~wl.asked
    /\ \E question \in LlamaQuestions, karg \in 0 .. MaxK :
         LET k == OrDefault(karg, wl.k)
         IN IF wl.has_faiss
            THEN \E hits \in FaissSearch(wl.index,
                                         GenerateQueryEmbedding(question), k) :
                   wl' = [wl EXCEPT !.asked = TRUE, !.question = question,
                                    !.results = FaissResults(hits, wl.chunks,
                                                             wl.n_chunks)]
            ELSE wl' = [wl EXCEPT !.asked = TRUE, !.question = question,
                                  !.results = KeywordResults(
                                      Keywords(question, StopwordsLlama),
                                      wl.chunks, k)]
    /\ UNCHANGED <<ct, tk, disk, gen, qe, qlog, llm, kw, cl, pf, bulk, st, pp, rp>>

\* The index directories an engine is constructed from: a snapshot of a
\* corpus, whole or with some of its files absent or truncated.
SnapshotFiles(texts) ==
    [index : {Absent, Partial(1),
              File(1, CreateFaissIndex(GenerateEmbeddings(texts, BatchSize)))},
     chunks : {Absent, Partial(1), File(1, ChunkRecords(texts))},
     info : {Absent, File(1, Len(texts))}]

(***************************************************************************)
(* PineconeIngestionPipeline.process_and_embed_file                        *)
(* (src/ingest_to_pinecone.py, lines 75-121). The text splitter and the    *)
(* embedding model are collaborators: a call meets the number of chunks    *)
(* longer than 50 characters the splitter returns, and learns whether      *)
(* encode succeeds.                                                        *)
(***************************************************************************)
RECURSIVE LeadingRun(_, _)
LeadingRun(s, c) ==
    IF s # << >> /\ Head(s) = c THEN 1 + LeadingRun(Tail(s), c) ELSE 0

\* re.sub of a run of at least min characters c by min - 1 characters c
\* (lines 77 and 78).
RECURSIVE SubRuns(_, _, _)
SubRuns(s, c, min) ==
    IF s = << >> THEN << >>
    ELSE LET n == LeadingRun(s, c)
         IN IF n >= min
            THEN [i \in 1 .. min - 1 |-> c]
                 \o SubRuns(SubSeq(s, n + 1, Len(s)), c, min)
            ELSE IF n > 0
            THEN SubSeq(s, 1, n) \o SubRuns(SubSeq(s, n + 1, Len(s)), c, min)
            ELSE <<Head(s)>> \o SubRuns(Tail(s), c, min)

\* text.split('\n')
RECURSIVE SplitLines(_)
SplitLines(s) ==
    IF \A i \in 1 .. Len(s) : s[i] # "\n" THEN <<s>>
    ELSE LET i == SetMin({j \in 1 .. Len(s) : s[j] = "\n"})
         IN <<SubSeq(s, 1, i - 1)>> \o SplitLines(SubSeq(s, i + 1, Len(s)))

\* '\n'.join(filter(None, lines))
RECURSIVE JoinNonEmpty(_)
JoinNonEmpty(lines) ==
    IF lines = << >> THEN << >>
    ELSE LET rest == JoinNonEmpty(Tail(lines))
         IN IF Head(lines) = << >> THEN rest
            ELSE IF rest = << >> THEN Head(lines)
            ELSE Head(lines) \o <<"\n">> \o rest

\* Lines 75-80: PineconeIngestionPipeline.clean_text.
PineconeCleanText(text) ==
    LET collapsed == SubRuns(SubRuns(text, "\n", 3), " ", 2)
        split == SplitLines(collapsed)
        lines == [i \in 1 .. Len(split) |-> Strip(split[i])]
    IN Strip(JoinNonEmpty(lines))

\* hashlib.md5(cleaned_text.encode()).hexdigest() of the cleaned texts of the
\* model.
Md5Table ==
    {<<<<>>, "d41d8cd98f00b204e9800998ecf8427e">>,
      <<<<"a">>, "0cc175b9c0f1b6a831c399e269772661">>,
      <<<<"a", "a">>, "4124bc0a9335c27f086f24ba207a4912">>,
      <<<<"a", "\n", "a">>, "702689f270c2e392424c0717ea2f72d5">>,
      <<<<"a", " ", "a">>, "1bbda9b94de9eafe906b75b30834a8b0">>,
      <<<<"a", "a", "a">>, "47bce5c74f589f4867dbd57e9ca9f808">>,
      <<<<"a", "\n", "a", "a">>, "051010019b10f6052ae9a5b21e5ad7f7">>,
      <<<<"a", " ", "a", "a">>, "206d5052455121b68dcbe37e79679792">>,
      <<<<"a", "a", "\n", "a">>, "966b006f4a08b97239addc597637262a">>,
      <<<<"a", "a", " ", "a">>, "930cc0e6eb9b78b246a1ef550bd37345">>,
      <<<<"a", "a", "a", "a">>, "74b87337454200d4d33f80c4663dc5e5">> }

\* Line 93.
Md5(text) == (CHOOSE row \in Md5Table : row[1] = text)[2]

NeverDuplicate(text_hash, processed_hashes) == FALSE

\* Line 94: text_hash in self.processed_hashes.
IsDuplicate(text_hash, processed_hashes) == text_hash \in processed_hashes

RawTexts == StringsUpTo({"a", " ", "\n"}, MaxRawLen)

NoFile == [called |-> FALSE, cleaned |-> << >>, duplicate |-> FALSE,
           n_vectors |-> 0, raised |-> FALSE]

\* chunked and twice are history: the cleaned contents that reached the
\* splitter, and whether one of them reached it a second time. files counts
\* the files run() has handed to process_and_embed_file (lines 153-157).
PpIdle == [processed_hashes |-> {}, chunked |-> {}, twice |-> FALSE,
           files |-> 0, last |-> NoFile]

\* Line 92: clean_text of every text a file can hold, computed once.
CleanedTexts == [text \in RawTexts |-> PineconeCleanText(text)]

\* Lines 82-121: process_and_embed_file(filepath) on a file holding text.
ProcessAndEmbedFile ==
    /\ pp.files < MaxPineconeFiles
    /\ \E readable \in BOOLEAN, text \in RawTexts,
          n_valid \in 0 .. MaxValid, encoded \in BOOLEAN :
         LET cleaned_text == CleanedTexts[text]
             text_hash == Md5(cleaned_text)
         IN IF ~readable
            THEN pp' = [pp EXCEPT !.files = @ + 1,
                                  !.last = [NoFile EXCEPT !.called = TRUE]]
            ELSE IF cleaned_text = << >>
                    \/ IsDuplicate(text_hash, pp.processed_hashes)
            THEN pp' = [pp EXCEPT
                         !.files = @ + 1,
                         !.last = [NoFile EXCEPT
                                     !.called = TRUE,
                                     !.cleaned = cleaned_text,
                                     !.duplicate = cleaned_text # << >>]]
            ELSE pp' = [pp EXCEPT
                         !.processed_hashes = @ \cup {text_hash},
                         !.chunked = @ \cup {cleaned_text},
                         !.twice = @ \/ cleaned_text \in pp.chunked,
                         !.files = @ + 1,
                         !.last = [NoFile EXCEPT
                                     !.called = TRUE,
                                     !.cleaned = cleaned_text,
                                     !.n_vectors = IF encoded THEN n_valid
                                                   ELSE 0,
                                     !.raised = n_valid > 0 /\ ~encoded]]
    /\ UNCHANGED <<ct, tk, disk, gen, qe, qlog, llm, kw, cl, pf, bulk, st, wl, rp>>

(***************************************************************************)
(* run_full_pipeline (src/ingest/run_pipeline.py, lines 32-126). A PDF is  *)
(* what convert_pdf does with it: "ok", "failed" (returns False) or        *)
(* "raised". The text files of the processed directory are as in the bulk  *)
(* runs. trace lists the stages in the order they were started.            *)
(***************************************************************************)
PdfOutcomes == {"ok", "failed", "raised"}

\* PDFConverter.convert_all_pdfs (src/ingest/convert.py, lines 72-107).
ConvertAllPdfs(pdfs) ==
    LET ok == {i \in 1 .. Len(pdfs) : pdfs[i] = "ok"}
    IN [total |-> Len(pdfs), success |-> Cardinality(ok),
        failed |-> Len(pdfs) - Cardinality(ok)]

\* TextChunker.process_all_texts: total_chunks of the statistics returned.
TotalChunks(files) ==
    SumSeq([i \in 1 .. Len(files) |-> ProcessTextFile(files[i])])

\* EmbeddingGenerator.process_chunks (src/ingest/embed.py, lines 105-128):
\* the pair it returns. loaded tells whether _load_chunks could read and
\* parse chunks.json (every exception there yields the empty list), valid
\* is the number of chunk records with a non-blank text.
ProcessChunksResult(loaded, valid) ==
    IF ~loaded \/ valid = 0 THEN <<0, 0>> ELSE <<valid, EmbeddingDim>>

RpIdle == [pc |-> "idle", pdfs |-> << >>, files |-> << >>, trace |-> << >>,
           success |-> 0, total_chunks |-> 0, n_chunks |-> 0,
           reported |-> FALSE]

\* A call of run_full_pipeline about to be made.
InitRunPipeline ==
    \E pdfs \in SeqsUpTo(PdfOutcomes, MaxPdfs),
       files \in SeqsUpTo(BulkFiles, MaxPdfs) :
        rp = [RpIdle EXCEPT !.pc = "call", !.pdfs = pdfs, !.files = files]

\* Lines 56-69: stage 1 and its test.
RunConvert ==
    /\ rp.pc = "call"
    /\ LET convert_stats == ConvertAllPdfs(rp.pdfs)
       IN rp' = [rp EXCEPT !.trace = Append(@, "convert"),
                           !.success = convert_stats.success,
                           !.pc = IF convert_stats.success = 0
                                  THEN "aborted" ELSE "converted"]
    /\ UNCHANGED <<ct, tk, disk, gen, qe, qlog, llm, kw, cl, pf, bulk, st, wl, pp>>

\* Lines 71-87: stage 2 and its test. The save of chunks.json can raise out
\* of process_all_texts.
RunChunk ==
    /\ rp.pc = "converted"
    /\ \E saved \in BOOLEAN :
         LET total_chunks == TotalChunks(rp.files)
         IN rp' = [rp EXCEPT !.trace = Append(@, "chunk"),
                             !.total_chunks = IF total_chunks > 0 /\ ~saved
                                              THEN 0 ELSE total_chunks,
                             !.pc = IF total_chunks > 0 /\ ~saved THEN "raised"
                                    ELSE IF total_chunks = 0 THEN "aborted"
                                    ELSE "chunked"]
    /\ UNCHANGED <<ct, tk, disk, gen, qe, qlog, llm, kw, cl, pf, bulk, st, wl, pp>>

\* Lines 89-126: stage 3 and the summary, which ends with the report of
\* success. built tells whether the embedding, the index and the save of
\* the artifacts went through; their exceptions leave run_full_pipeline.
RunEmbed ==
    /\ rp.pc = "chunked"
    /\ \E loaded \in BOOLEAN, built \in BOOLEAN, valid \in 1 .. rp.total_chunks :
         LET result == ProcessChunksResult(loaded, valid)
         IN rp' = IF result[1] > 0 /\ ~built
                  THEN [rp EXCEPT !.trace = Append(@, "embed"), !.pc = "raised"]
                  ELSE [rp EXCEPT !.trace = Append(@, "embed"),
                                  !.n_chunks = result[1],
                                  !.reported = TRUE,
                                  !.pc = "done"]
    /\ UNCHANGED <<ct, tk, disk, gen, qe, qlog, llm, kw, cl, pf, bulk, st, wl, pp>>

\* The machines of the later sections at rest.
RestIdle ==
    bulk = BulkIdle /\ st = StIdle /\ wl = WlNone /\ pp = PpIdle /\ rp = RpIdle

OthersIdle ==
    llm = LlmAbsent /\ kw = KwIdle /\ cl = ClIdle /\ pf = PfIdle /\ RestIdle

(***************************************************************************)
(* Specifications.                                                         *)
(***************************************************************************)
DiskEmpty == [input |-> << >>, index |-> Absent, chunks |-> Absent,
              info |-> Absent]

\* The two chunkers, each from a call about to be made.
InitChunking ==
    /\ \/ InitChunkText /\ tk = TkIdle
       \/ InitTiktoken /\ ct = CtIdle
    /\ disk = DiskEmpty /\ gen = GenIdle /\ qe = QeNone /\ qlog = QlogNone
    /\ OthersIdle

NextChunking ==
    \/ ChunkTextCall
    \/ ChunkTextStep
    \/ TextChunkerInit
    \/ TiktokenCall
    \/ TiktokenStep

SpecChunking == InitChunking /\ [][NextChunking]_vars

\* One run of process_chunks into an empty index directory.
InitBuild ==
    /\ ct = CtIdle /\ tk = TkIdle /\ qe = QeNone /\ qlog = QlogNone
    /\ OthersIdle
    /\ gen = GenIdle
    /\ \E input \in AllInputs : disk = [DiskEmpty EXCEPT !.input = input]

SaveArtifacts ==
    \/ SaveIndexOpen
    \/ SaveIndexClose
    \/ SaveChunksOpen
    \/ SaveChunksClose
    \/ SaveInfoOpen
    \/ SaveInfoClose

NextBuild == ProcessChunks \/ SaveArtifacts

SpecBuild == InitBuild /\ [][NextBuild]_vars

\* Builds and rebuilds of the snapshot while query engines are constructed.
InitSnapshot ==
    /\ ct = CtIdle /\ tk = TkIdle /\ qe = QeNone /\ qlog = QlogNone
    /\ OthersIdle
    /\ gen = GenIdle
    /\ \E input \in Corpora : disk = [DiskEmpty EXCEPT !.input = input]

LoadSnapshot ==
    \/ QueryEngineNew
    \/ LoadIndexInfo
    \/ LoadFaissIndex
    \/ LoadChunks

NextSnapshot == ProcessChunks \/ SaveArtifacts \/ Reingest \/ LoadSnapshot

SpecSnapshot == InitSnapshot /\ [][NextSnapshot]_vars

\* Queries on an engine constructed from an index directory at rest. The
\* directory holds a snapshot, or the files a rebuild leaves when it stops
\* after writing the index file: the index of the new build next to the
\* chunk records and index_info of the old one.
InitQuery ==
    /\ ct = CtIdle /\ tk = TkIdle /\ qe = QeNone /\ qlog = QlogNone
    /\ OthersIdle
    /\ \E old \in Corpora, new \in Corpora :
         /\ disk = [input |-> new,
                    index |-> File(2, CreateFaissIndex(GenerateEmbeddings(
                                 [i \in 1 .. Len(new) |-> new[i].text], BatchSize))),
                    chunks |-> File(1, old),
                    info |-> File(1, Len(old))]
         /\ gen = [GenIdle EXCEPT !.pc = "stopped", !.build = 2]

NextQuery == LoadSnapshot \/ Query

SpecQuery == InitQuery /\ [][NextQuery]_vars

\* Queries on an engine constructed from a complete snapshot, in every
\* installation of the answer-generation collaborator.
InitAnswer ==
    /\ ct = CtIdle /\ tk = TkIdle /\ qe = QeNone /\ qlog = QlogNone
    /\ kw = KwIdle /\ cl = ClIdle /\ pf = PfIdle
    /\ RestIdle
    /\ \E env \in LlmEnvs, use_llm \in BOOLEAN :
         llm = [env |-> env, use_llm |-> use_llm]
    /\ \E corpus \in Corpora :
         /\ disk = [input |-> corpus,
                    index |-> File(1, CreateFaissIndex(GenerateEmbeddings(
                                 [i \in 1 .. Len(corpus) |-> corpus[i].text],
                                 BatchSize))),
                    chunks |-> File(1, corpus),
                    info |-> File(1, Len(corpus))]
         /\ gen = [GenIdle EXCEPT !.pc = "stopped"]

NextAnswer == LoadSnapshot \/ Query

SpecAnswer == InitAnswer /\ [][NextAnswer]_vars

\* Keyword searches.
InitKeywordSearch ==
    /\ ct = CtIdle /\ tk = TkIdle /\ qe = QeNone /\ qlog = QlogNone
    /\ disk = DiskEmpty /\ gen = GenIdle
    /\ llm = LlmAbsent /\ cl = ClIdle /\ pf = PfIdle
    /\ RestIdle
    /\ InitKeyword

NextKeyword == SearchWithKeywords \/ RagDemoSearch

SpecKeyword == InitKeywordSearch /\ [][NextKeyword]_vars

\* clean_text, and clean_text on its own output.
InitCleaning ==
    /\ ct = CtIdle /\ tk = TkIdle /\ qe = QeNone /\ qlog = QlogNone
    /\ disk = DiskEmpty /\ gen = GenIdle
    /\ llm = LlmAbsent /\ kw = KwIdle /\ pf = PfIdle
    /\ RestIdle
    /\ InitClean

NextClean == CleanText \/ CleanTextAgain

SpecClean == InitCleaning /\ [][NextClean]_vars

\* One call of process_file.
InitIngest ==
    /\ ct = CtIdle /\ tk = TkIdle /\ qe = QeNone /\ qlog = QlogNone
    /\ disk = DiskEmpty /\ gen = GenIdle
    /\ llm = LlmAbsent /\ kw = KwIdle /\ cl = ClIdle
    /\ RestIdle
    /\ InitProcessFile

NextIngest == ProcessFileOpen \/ ProcessChunk \/ ProcessFileFinish

SpecIngest == InitIngest /\ [][NextIngest]_vars

\* The machines of the retrieval core and of process_file at rest.
CoreIdle ==
    /\ ct = CtIdle /\ tk = TkIdle /\ qe = QeNone /\ qlog = QlogNone
    /\ disk = DiskEmpty /\ gen = GenIdle
    /\ llm = LlmAbsent /\ kw = KwIdle /\ cl = ClIdle /\ pf = PfIdle

\* One bulk run over the files of a directory.
InitBulkRun ==
    /\ CoreIdle /\ st = StIdle /\ wl = WlNone /\ pp = PpIdle /\ rp = RpIdle
    /\ InitBulk

NextBulk ==
    \/ ProcessAllTexts
    \/ ProcessAllTextsFile
    \/ ProcessAllTextsFinish
    \/ ProcessDirectory
    \/ ProcessDirectoryFile
    \/ ProcessDirectoryReturn

SpecBulk == InitBulkRun /\ [][NextBulk]_vars

\* The chunking scenario of the specification: a 2,500-character text cut
\* with chunk_size = 1000 and overlap = 200. The texts are letters with up to
\* MaxCuts boundary delimiters, the j-th delimiter of the preference list at
\* position first + (j - 1) * gap, and the text of spaces only.
Scenario == [len |-> 2500, chunk_size |-> 1000, overlap |-> 200]

ScenarioText(n, first, gap) ==
    [i \in 1 .. Scenario.len |->
        IF \E j \in 1 .. n : i - 1 = first + (j - 1) * gap
        THEN Delimiters[CHOOSE j \in 1 .. n : i - 1 = first + (j - 1) * gap][1]
        ELSE IF \E j \in 1 .. n : i - 2 = first + (j - 1) * gap
        THEN Delimiters[CHOOSE j \in 1 .. n : i - 2 = first + (j - 1) * gap][2]
        ELSE "a"]

ScenarioTexts ==
    {ScenarioText(n, first, gap) :
        n \in 0 .. MaxCuts, first \in {401, 501, 601},
        gap \in {302, 350, 400, 500}}
    \cup {[i \in 1 .. Scenario.len |-> " "]}

InitScenario ==
    /\ tk = TkIdle /\ qe = QeNone /\ qlog = QlogNone
    /\ disk = DiskEmpty /\ gen = GenIdle
    /\ OthersIdle
    /\ \E text \in ScenarioTexts :
         ct = [CtIdle EXCEPT !.pc = "call", !.text = text,
                             !.arg_size = Scenario.chunk_size,
                             !.arg_overlap = Scenario.overlap]

NextScenario == ChunkTextCall \/ ChunkTextStep

SpecScenario == InitScenario /\ [][NextScenario]_vars

\* A QueryEngineWithLlama constructed from an index directory at rest, and
\* its first query.
InitLlamaEngine ==
    /\ ct = CtIdle /\ tk = TkIdle /\ qe = QeNone /\ qlog = QlogNone
    /\ gen = GenIdle
    /\ llm = LlmAbsent /\ kw = KwIdle /\ cl = ClIdle /\ pf = PfIdle
    /\ bulk = BulkIdle /\ st = StIdle /\ pp = PpIdle /\ rp = RpIdle
    /\ wl = WlNone
    /\ \E texts \in StringsUpTo(KwTexts, MaxSnapshot) \ {<< >>} :
       \E files \in SnapshotFiles(texts) :
         disk = [input |-> ChunkRecords(texts), index |-> files.index,
                 chunks |-> files.chunks, info |-> files.info]

NextLlamaEngine == QueryEngineWithLlamaNew \/ QueryWithLlama

SpecLlamaEngine == InitLlamaEngine /\ [][NextLlamaEngine]_vars

\* Calls of process_and_embed_file on one pipeline object.
InitPinecone ==
    /\ CoreIdle /\ bulk = BulkIdle /\ st = StIdle /\ wl = WlNone
    /\ rp = RpIdle
    /\ pp = PpIdle

NextPinecone == ProcessAndEmbedFile

SpecPinecone == InitPinecone /\ [][NextPinecone]_vars

\* One call of run_full_pipeline.
InitPipeline ==
    /\ CoreIdle /\ bulk = BulkIdle /\ st = StIdle /\ wl = WlNone
    /\ pp = PpIdle
    /\ InitRunPipeline

NextPipeline == RunConvert \/ RunChunk \/ RunEmbed

SpecPipeline == InitPipeline /\ [][NextPipeline]_vars

\* Calls of search_vectorstore in one process.
InitSearch ==
    /\ CoreIdle /\ bulk = BulkIdle /\ wl = WlNone /\ pp = PpIdle /\ rp = RpIdle
    /\ InitSearchTool

NextSearch ==
    \/ GetToolInstance
    \/ VectorSearchToolNew
    \/ SearchVectorstore
    \/ ToolSearch
    \/ HealthCheck

SpecSearch == InitSearch /\ [][NextSearch]_vars

Spec == SpecSnapshot

(***************************************************************************)
(* Properties.                                                             *)
(***************************************************************************)
Blank(s) == \A i \in 1 .. Len(s) : s[i] \in Whitespace

RECURSIVE IsSubseq(_, _)
IsSubseq(a, b) ==
    IF a = << >> THEN TRUE
    ELSE IF b = << >> THEN FALSE
    ELSE IF Head(a) = Head(b) THEN IsSubseq(Tail(a), Tail(b))
    ELSE IsSubseq(a, Tail(b))

\* C1: with 0 < overlap < chunk_size, every iteration of the window loop of
\* chunk_text moves the window start strictly forward (so the loop ends).
C1_StartStrictlyIncreases ==
    [][(/\ ct.pc = "loop"
        /\ ct'.iter = ct.iter + 1
        /\ 0 < ct.overlap /\ ct.overlap < ct.chunk_size)
       => ct'.start > ct.start]_vars

\* C2: with 0 < chunk_overlap < chunk_size, once _chunk_with_tiktoken has
\* emitted the window that ends at the end of the token stream, start_idx
\* equals that end and the loop has exited.
C2_LastWindowExits ==
    (/\ tk.iter > 0
     /\ 0 < tk.chunk_overlap /\ tk.chunk_overlap < tk.chunk_size
     /\ tk.end_idx >= Len(tk.tokens))
    => (tk.pc = "done" /\ tk.start_idx = tk.end_idx)

\* C3: a configuration with overlap >= chunk_size is rejected before any
\* text is processed: neither chunker enters its loop or emits a chunk.
C3_BadOverlapRejected ==
    /\ (ct.pc \notin {"idle", "call"} /\ ct.overlap >= ct.chunk_size)
          => (ct.pc = "config_error" /\ ct.chunks = << >>)
    /\ (tk.pc \notin {"idle", "new"} /\ tk.chunk_overlap >= tk.chunk_size)
          => (tk.pc = "config_error" /\ tk.chunks = << >>)

\* C4: a QueryEngine that finishes loading holds the index file, the chunk
\* records and the index_info of one and the same build.
C4_LoadsOneSnapshot ==
    qe.pc = "ready" =>
        (qe.info_build = qe.index_build /\ qe.index_build = qe.chunks_build)

\* C5: no engine becomes ready when the number of chunk records differs
\* from the number of vectors of the index, or that number from n_vectors.
C5_ReadyImpliesCountsMatch ==
    qe.pc = "ready" =>
        (qe.n_chunks = Len(qe.index) /\ Len(qe.index) = qe.n_vectors)

\* C6: after process_chunks has returned successfully the persisted index,
\* chunk records and n_vectors have the same count, and the vector at every
\* position is the normalised embedding of the chunk text at that position.
C6_SnapshotAligned ==
    (gen.pc = "returned" /\ gen.result[1] > 0) =>
        /\ disk.index.state = "ok" /\ disk.chunks.state = "ok"
        /\ disk.info.state = "ok"
        /\ gen.result[1] = Len(disk.chunks.data)
        /\ Len(disk.index.data) = Len(disk.chunks.data)
        /\ disk.info.data = Len(disk.index.data)
        /\ \A i \in 1 .. Len(disk.chunks.data) :
              Strip(disk.chunks.data[i].text) # << >>
        /\ \A p \in 1 .. Len(disk.index.data) :
              disk.index.data[p]
                  = Normalize(ModelEncode(disk.chunks.data[p].text))

\* A build of three chunks (two batches) out of four input records, the
\* first and the last chunk having different texts.
C6_Witness ==
    /\ gen.pc = "returned" /\ gen.result[1] = 3
    /\ Len(disk.input) = 4
    /\ disk.chunks.state = "ok" /\ Len(disk.chunks.data) = 3
    /\ disk.chunks.data[1].text # disk.chunks.data[3].text

\* C7: query with an empty or whitespace-only question raises before any
\* call to the embedding model or the index, and leaves the engine unchanged.
C7_EmptyQuestionRejected ==
    [][(/\ qlog' # qlog
        /\ qlog'.outcome # "none"
        /\ Blank(qlog'.question))
       => (/\ qlog'.outcome = "ValueError"
           /\ qlog'.encode_calls = 0 /\ qlog'.search_calls = 0
           /\ qlog'.results = << >>
           /\ qe' = qe)]_vars

\* A whitespace-only question has been rejected by a ready engine.
C7_Witness ==
    /\ qe.pc = "ready"
    /\ qlog.outcome = "ValueError"
    /\ qlog.question = <<" ">>

\* C8: a query never fails on a position outside [0, n_chunks), and every
\* result is the chunk record at its position, 0 <= index < n_chunks.
C8_ResultsReferToChunks ==
    (qlog.outcome # "none" /\ ~Blank(qlog.question)) =>
        /\ qlog.outcome = "ok"
        /\ \A i \in 1 .. Len(qlog.results) :
              LET r == qlog.results[i]
              IN /\ 0 <= r.index /\ r.index < qe.n_chunks
                 /\ r.text = qe.chunks[r.index + 1].text
                 /\ r.chunk_id = qe.chunks[r.index + 1].chunk_id

\* The index holds more vectors than there are chunk records, it returned a
\* position past the last chunk record, and the query still gave results.
C8_Witness ==
    /\ qlog.outcome = "ok"
    /\ Len(qe.index) > qe.n_chunks
    /\ \E i \in 1 .. Len(qlog.hits) : qlog.hits[i].idx >= qe.n_chunks
    /\ Len(qlog.results) >= 1

\* C9: on a snapshot with n chunk records and n vectors, a query with
\* k >= 1 succeeds and returns exactly min(k, n) results.
C9_ExactlyMinKN ==
    (/\ qlog.outcome # "none" /\ ~Blank(qlog.question)
     /\ Len(qe.index) = qe.n_chunks) =>
        /\ qlog.outcome = "ok"
        /\ qlog.k >= 1
        /\ Len(qlog.results) = Min2(qlog.k, qe.n_chunks)

\* k larger than a 3-vector index: exactly 3 results.
C9_Witness ==
    /\ qlog.outcome = "ok"
    /\ Len(qe.index) = 3 /\ qe.n_chunks = 3
    /\ qlog.k > 3
    /\ Len(qlog.results) = 3

\* C10: the results are a subsequence of the index output, in the same
\* order and with the same scores, hence in non-increasing score order.
C10_OrderPreserved ==
    qlog.outcome = "ok" =>
        /\ IsSubseq([i \in 1 .. Len(qlog.results) |->
                        [idx |-> qlog.results[i].index,
                         score |-> qlog.results[i].score]],
                    qlog.hits)
        /\ \A i, j \in 1 .. Len(qlog.results) :
              i < j => qlog.results[i].score >= qlog.results[j].score

\* Results of different scores, with a position of the index output skipped.
C10_Witness ==
    /\ qlog.outcome = "ok"
    /\ Len(qlog.results) >= 2
    /\ qlog.results[1].score > qlog.results[Len(qlog.results)].score
    /\ Len(qlog.hits) > Len(qlog.results)

\* C11: the keyword search (_search_with_keywords and RAGDemo.search)
\* returns entries in descending score order, entries of equal score in
\* ascending position of their chunk or document, only entries with a
\* positive score, and exactly the first k entries of that ordering.
C11_KeywordRanking ==
    kw.pc = "done" =>
      LET r == kw.results
          positive == {p \in 0 .. Len(kw.docs) - 1 : kw.scores[p + 1] > 0}
          Before(s1, p1, s2, p2) == s1 > s2 \/ (s1 = s2 /\ p1 < p2)
      IN /\ Len(r) = Min2(kw.k, Cardinality(positive))
         /\ \A i \in 1 .. Len(r) :
               r[i].pos \in positive /\ r[i].score = kw.scores[r[i].pos + 1]
         /\ \A i, j \in 1 .. Len(r) :
               i < j => Before(r[i].score, r[i].pos, r[j].score, r[j].pos)
         /\ \A p \in positive :
               (\A i \in 1 .. Len(r) : r[i].pos # p) =>
                  \A i \in 1 .. Len(r) :
                     Before(r[i].score, r[i].pos, kw.scores[p + 1], p)

\* A search cut to k entries: two entries of equal score are returned, and
\* an entry of a positive but lower score that comes before them in the
\* list is left out.
C11_Witness ==
    /\ kw.pc = "done"
    /\ Len(kw.results) = kw.k
    /\ \E i, j \in 1 .. Len(kw.results) :
          i < j /\ kw.results[i].score = kw.results[j].score
    /\ \E p \in 1 .. Len(kw.docs) :
          /\ kw.scores[p] > 0
          /\ \A i \in 1 .. Len(kw.results) :
                kw.results[i].pos > p - 1 /\ kw.results[i].score > kw.scores[p]

\* C12: the context of a query holds, for the results in rank order, one
\* header (source, chunk_id, score) followed by the chunk text, with one
\* delimiter between consecutive chunks and none after the last: n results
\* give max(n - 1, 0) delimiters, no result gives the empty context, and
\* the context is fixed by the result list.
C12_ContextLayout ==
    qlog.outcome = "ok" =>
      LET r == qlog.results
          n == Len(r)
          c == qlog.context
      IN /\ Len(c) = IF n = 0 THEN 0 ELSE 3 * n - 1
         /\ \A i \in 1 .. n :
               /\ c[3 * i - 2] = [kind |-> "header", source |-> r[i].source_file,
                                  chunk_id |-> r[i].chunk_id, score |-> r[i].score]
               /\ c[3 * i - 1] = [kind |-> "text", text |-> r[i].text]
               /\ i < n => c[3 * i] = [kind |-> "---"]
         /\ Cardinality({j \in 1 .. Len(c) : c[j].kind = "---"}) = Max2(n - 1, 0)

\* A query that returned three results, hence two delimiters.
C12_Witness ==
    /\ qlog.outcome = "ok"
    /\ Len(qlog.results) = 3
    /\ Cardinality({j \in 1 .. Len(qlog.context) :
                       qlog.context[j].kind = "---"}) = 2

\* C13: a query with a non-empty question on a complete snapshot returns
\* its results and its context in every state of the answer-generation
\* collaborator (ready, not importable, not configured, not found, not
\* loaded, failing during generation, failing while it is set up): the LLM
\* never makes the query fail.
C13_LlmNeverFailsQuery ==
    (qlog.outcome # "none" /\ ~Blank(qlog.question)) =>
       /\ qlog.outcome = "ok"
       /\ Len(qlog.results) = Min2(qlog.k, qe.n_chunks)
       /\ qlog.context = BuildContext(qlog.results)
       /\ qlog.context # << >>
       /\ qlog.answer # ""

\* C14: with 0 < overlap < chunk_size, the last m characters of every
\* chunk emitted by chunk_text equal the first m characters of the next
\* chunk, m = min(overlap, len(chunk)).
C14_OverlapShared ==
    (0 < ct.overlap /\ ct.overlap < ct.chunk_size) =>
       \A i \in 1 .. Len(ct.chunks) - 1 :
          LET m == Min2(ct.overlap, Len(ct.chunks[i]))
          IN PySlice(ct.chunks[i], Len(ct.chunks[i]) - m, Len(ct.chunks[i]))
             = PySlice(ct.chunks[i + 1], 0, m)

\* C15: every chunk emitted by chunk_text is at most chunk_size long, and
\* with 0 < overlap < chunk_size the boundary search leaves the window end
\* at or before min(start + chunk_size, len(text)).
C15_ChunkWithinSize ==
    /\ \A i \in 1 .. Len(ct.chunks) : Len(ct.chunks[i]) <= ct.chunk_size
    /\ (ct.iter > 0 /\ 0 < ct.overlap /\ ct.overlap < ct.chunk_size) =>
          ct.end <= Min2(ct.wstart + ct.chunk_size, Len(ct.text))

\* A window cut back to a delimiter whose chunk was emitted.
C15_Witness ==
    /\ ct.iter > 0 /\ ct.cut.d # 0
    /\ 0 < ct.overlap /\ ct.overlap < ct.chunk_size
    /\ ct.end < ct.wstart + ct.chunk_size
    /\ ct.chunks # << >>

\* C16: the windows of chunk_text cover the text without gaps: the first
\* starts at 0, each next one starts at or before the end of the one before,
\* the last ends at len(text), and every non-whitespace character of the
\* text lies in a window, hence in an emitted chunk.
C16_WindowsCover ==
    /\ ct.iter = 1 => ct.wstart = 0
    /\ ct.iter > 0 => ct.start <= ct.end
    /\ (ct.pc = "done" /\ ct.iter > 0) => ct.end = Len(ct.text)
    /\ ct.pc = "done" =>
          /\ \A p \in 0 .. Len(ct.text) - 1 :
                ct.text[p + 1] \notin Whitespace => p \in ct.covered
          /\ (\E p \in 1 .. Len(ct.text) : ct.text[p] \notin Whitespace)
                => ct.chunks # << >>

\* A text cut into three windows, with a non-whitespace last character.
C16_Witness ==
    /\ ct.pc = "done" /\ ct.iter = 3
    /\ Len(ct.chunks) = 3
    /\ ct.text[Len(ct.text)] \notin Whitespace
    /\ ct.covered = 0 .. Len(ct.text) - 1

\* C17: with 0 < overlap < chunk_size, a window cut at a boundary
\* delimiter is cut at the first delimiter of the preference list that
\* occurs inside the window after start + chunk_size // 2, and the window
\* ends just past the whole delimiter (end = position + len(delimiter)).
C17_CutPastDelimiter ==
    (ct.cut.d # 0 /\ 0 < ct.overlap /\ ct.overlap < ct.chunk_size) =>
       LET wend == Min2(ct.wstart + ct.chunk_size, Len(ct.text))
           Occurs(d) == \E q \in ct.wstart .. wend - Len(Delimiters[d]) :
                           /\ q > ct.wstart + ct.chunk_size \div 2
                           /\ OccursAt(ct.text, Delimiters[d], q)
       IN /\ Occurs(ct.cut.d)
          /\ \A d \in 1 .. ct.cut.d - 1 : ~Occurs(d)
          /\ ct.end = ct.cut.pos + Len(Delimiters[ct.cut.d])

\* C18: every chunk returned by chunk_text is non-empty after trimming;
\* an empty or whitespace-only text gives the empty sequence.
C18_ChunksNonBlank ==
    /\ \A i \in 1 .. Len(ct.chunks) : Strip(ct.chunks[i]) # << >>
    /\ (ct.pc = "done" /\ Blank(ct.text)) => ct.chunks = << >>

\* C19: clean_text is idempotent: cleaning a cleaned text changes nothing.
C19_CleanIdempotent ==
    cl.pc = "recleaned" => cl.twice = cl.once

\* C20: when get_embedding fails for a chunk of a file, process_file
\* returns 0 and the vector store is as it was before the file was started.
C20_FailedFileLeavesStore ==
    pf.failed => (pf.ret = 0 /\ pf.store = pf.before)


SkippedFiles(b) ==
    IF b.runner = "TextChunker" THEN b.stats.files_skipped
    ELSE b.stats.failed_files

\* C21: a bulk run that completes has visited every input file, whatever
\* happened to the earlier ones; the files counted as processed plus those
\* counted as skipped or failed are the input files, and total_chunks is the
\* sum of the chunk counts of the processed files.
C21_BulkRunAccounts ==
    bulk.pc = "done" =>
        /\ Len(bulk.returned) = Len(bulk.files)
        /\ bulk.stats.files_processed + SkippedFiles(bulk) = Len(bulk.files)
        /\ bulk.stats.files_processed
             = Cardinality({i \in 1 .. Len(bulk.returned) : bulk.returned[i] > 0})
        /\ bulk.stats.total_chunks = SumSeq(bulk.returned)

\* A completed run in which a failing file and a blank file came before a
\* processed one.
C21_Witness ==
    /\ bulk.pc = "done"
    /\ \E i, j, k \in 1 .. Len(bulk.files) :
         /\ i < k /\ j < k
         /\ bulk.files[i].fail_at > 0
         /\ bulk.files[j].readable /\ bulk.files[j].n_chunks = 0
         /\ bulk.returned[k] > 1

\* C22: search_vectorstore hands a list to its caller and never an
\* exception, for every query, the empty string included; the list is empty
\* when the construction of the tool, the embedding provider or the vector
\* store failed.
C22_SearchNeverRaises ==
    st.last.op = "search_vectorstore"
        => /\ ~st.last.outcome.raised
           /\ (st.last.cons_failed \/ st.last.emb_failed \/ st.last.store_failed)
                  => st.last.outcome.ret = << >>

\* The empty query answered with the empty list after the vector store
\* failed.
C22_Witness ==
    /\ st.last.op = "search_vectorstore"
    /\ st.last.query = << >>
    /\ st.last.store_failed
    /\ st.last.outcome = Returned(<< >>)

\* C28 as stated: once the provider has failed for a text, every later
\* search with that text, on whichever tool, returns the empty list without
\* contacting the provider, until the entry leaves the LRU cache.
C28_FailureCachedAnyTool ==
    [][\A key \in st.failed_texts :
          (st'.last.op \in {"search_vectorstore", "search"}
             /\ st'.last.query = key[2] /\ ~st'.last.cons_failed)
            => /\ ~st'.last.contacted
               /\ st'.last.outcome = Returned(<< >>)]_vars

\* C28: a failure of the embedding provider is cached like a success, under
\* the tool and the text. From the call (a search or a health check) in
\* which the provider failed for a text until the entry leaves the LRU
\* cache, every search by the same tool with that text returns the empty
\* list and does not contact the provider, whether or not the provider has
\* recovered; a health check by that tool in that time reports the provider
\* as down without contacting it.
C28_FailureCached ==
    [][\A key \in st.failed_texts :
          /\ (st'.last.op \in {"search_vectorstore", "search"}
                 /\ st'.last.self = key[1]
                 /\ st'.last.query = key[2] /\ ~st'.last.cons_failed)
                => /\ ~st'.last.contacted
                   /\ st'.last.outcome = Returned(<< >>)
          /\ (st'.last.op = "health_check" /\ st'.last.self = key[1]
                 /\ key[2] = TestText)
                => /\ ~st'.last.contacted
                   /\ ~st'.last.health.openai]_vars

\* A search answered from a cached failure although the provider would have
\* answered, with the cache full and the other tool holding an entry.
C28_Witness ==
    /\ st.last.op \in {"search_vectorstore", "search"}
    /\ <<st.last.self, st.last.query>> \in st.failed_texts
    /\ st.last.provider = "ok"
    /\ ~st.last.contacted
    /\ st.last.outcome = Returned(<< >>)
    /\ Len(st.cache) = CacheCapacity
    /\ \E i \in 1 .. Len(st.cache) : st.cache[i].self # st.last.self

\* C23: chunk_text honours an explicitly passed overlap of 0: the windows
\* are disjoint and adjacent, every window after the first starting exactly
\* where the previous one ended.
C23_ZeroOverlapAdjacent ==
    (ct.arg_overlap = 0 /\ ct.iter > 0 /\ ct.end < Len(ct.text))
        => ct.start = ct.end

\* C26: every window of chunk_text except the last spans more than
\* chunk_size // 2 characters: a delimiter is accepted only past the
\* midpoint of the window, and otherwise the window is chunk_size long.
C26_WindowPastMidpoint ==
    (ct.iter > 0 /\ ct.end < Len(ct.text))
        => ct.end > ct.wstart + ct.chunk_size \div 2

\* A window cut at a delimiter, shorter than chunk_size and not the last.
C26_Witness ==
    /\ ct.iter > 0 /\ ct.end < Len(ct.text)
    /\ 0 < ct.overlap /\ ct.overlap < ct.chunk_size
    /\ ct.cut.d # 0
    /\ ct.end - ct.wstart < ct.chunk_size

\* C25: chunk_text applied to a 2,500-character text with chunk_size = 1000
\* and overlap = 200 yields 3 or 4 chunks, wherever the boundary delimiters
\* are: a call that has returned has emitted 3 or 4 chunks, and a call that
\* has emitted 4 chunks has no text left to cut after its last window.
C25_ScenarioChunkCount ==
    (/\ Len(ct.text) = Scenario.len
     /\ ct.chunk_size = Scenario.chunk_size
     /\ ct.overlap = Scenario.overlap)
        => /\ ct.pc = "done" => Len(ct.chunks) \in {3, 4}
           /\ (ct.pc = "loop" /\ Len(ct.chunks) = 4)
                  => Blank(PySlice(ct.text, ct.end, Len(ct.text)))

\* C24: when chunks.json or the index of the snapshot is absent, loading a
\* QueryEngineWithLlama reports it to the caller: the engine does not become
\* ready, in particular not on the built-in sample chunks, and every result
\* of a query is a chunk record loaded from the snapshot.
C24_NoSampleFallback ==
    /\ wl.pc = "ready" =>
          /\ disk.chunks.state # "absent"
          /\ disk.index.state # "absent"
          /\ wl.origin = "snapshot"
    /\ wl.asked =>
          \A i \in 1 .. Len(wl.results) :
             \E j \in 1 .. Len(disk.chunks.data) :
                /\ disk.chunks.data[j].chunk_id = wl.results[i].chunk_id
                /\ disk.chunks.data[j].source_file = wl.results[i].source_file
                /\ disk.chunks.data[j].text = wl.results[i].text

RECURSIVE Flatten(_)
Flatten(batches) ==
    IF batches = << >> THEN << >> ELSE Head(batches) \o Flatten(Tail(batches))

\* C27: when no call fails, process_file upserts each chunk of the file
\* exactly once and in chunk order, in batches of at most 10 vectors; the
\* i-th vector has the id <stem>_chunk_<i> and chunk_id = i for i = 1..n, so
\* the ids are pairwise distinct, and the returned count is the number of
\* vectors upserted.
C27_UpsertOncePerChunk ==
    LET upserted == Flatten(pf.upserts)
    IN /\ \A b \in 1 .. Len(pf.upserts) :
             Len(pf.upserts[b]) >= 1 /\ Len(pf.upserts[b]) <= 10
       /\ \A i \in 1 .. Len(upserted) :
             /\ upserted[i].id = VectorId("doc", i)
             /\ upserted[i].chunk_id = i
       /\ (pf.pc = "done" /\ ~pf.failed) =>
             /\ Len(upserted) = pf.n_chunks
             /\ pf.ret = Len(upserted)

\* A file of more than 10 chunks processed without failure: a full batch
\* and a batch of the remaining vectors.
C27_Witness ==
    /\ pf.pc = "done" /\ ~pf.failed
    /\ pf.ret > 10
    /\ Len(pf.upserts) = 2
    /\ Len(pf.upserts[2]) < 10

\* C29: across the calls of process_and_embed_file on one pipeline, each
\* distinct cleaned content is chunked and embedded at most once; a file
\* whose cleaned text is empty or equals that of an earlier processed file
\* yields no vectors and is not chunked; processed_hashes only grows.
C29_ContentProcessedOnce ==
    [][/\ pp.processed_hashes \subseteq pp'.processed_hashes
       /\ ~pp'.twice
       /\ (pp'.last.cleaned = << >> \/ pp'.last.cleaned \in pp.chunked)
             => /\ pp'.last.n_vectors = 0
                /\ pp'.chunked = pp.chunked
                /\ pp'.processed_hashes = pp.processed_hashes]_vars

\* A file rejected as a duplicate after two different contents have been
\* processed.
C29_Witness ==
    /\ pp.last.called /\ pp.last.duplicate
    /\ pp.last.cleaned \in pp.chunked
    /\ pp.last.n_vectors = 0
    /\ Cardinality(pp.processed_hashes) >= 2

\* C30: run_full_pipeline starts its stages in the order convert, chunk,
\* embed; it starts chunking only after a PDF was converted and the
\* embedding stage only after chunking produced a chunk, and it reports the
\* pipeline as completed successfully only when the embedding stage indexed
\* at least one chunk.
C30_StagesInOrder ==
    /\ rp.trace \in {<< >>, <<"convert">>, <<"convert", "chunk">>,
                     <<"convert", "chunk", "embed">>}
    /\ Len(rp.trace) >= 2 => rp.success > 0
    /\ Len(rp.trace) >= 3 => rp.total_chunks > 0
    /\ rp.reported => rp.n_chunks >= 1
====
